---- MODULE Spec2Model ----
(***************************************************************************)
(* Model of the op-challenger agent: the position algebra and the alphabet *)
(* fault-game solver (crates/solvers/src/fault), and the drivers and       *)
(* handlers that feed it (crates/driver/src).                              *)
(*                                                                         *)
(* Five specifications are defined over one set of variables:              *)
(*   SpecRespond  builds a game state the way the FaultDisputeGame         *)
(*                contract grows its claim array and applies respond;      *)
(*   SpecRespondAny applies respond to any game value;                     *)
(*   SpecOracle   runs the OutputProposed handler and the transaction      *)
(*                dispatcher against an L1 mempool;                        *)
(*   SpecGames    runs the dispute-factory subscriber and the fault-game   *)
(*                watcher against the games on chain;                      *)
(*   SpecStack    runs main and the drivers it spawns.                     *)
(***************************************************************************)
EXTENDS Integers, Naturals, Sequences, FiniteSets, TLC

(***************************************************************************)
(* Bounds of the model.                                                    *)
(***************************************************************************)
\* Largest number of claims to which a game's claim array grows freely in
\* SpecRespond; the games that run straight down to a leaf are initial states.
MaxClaims == 4

\* Number of OutputProposed logs the oracle subscription delivers.
MaxOracleLogs == 2

\* Largest number of transactions other senders keep pending at once.
MaxPending == 1

\* Number of DisputeGameCreated logs the factory subscription delivers.
MaxFactoryLogs == 2

\* Number of claims participants post in SpecGames after the games' root
\* claims, in all games together.
MaxChainPosts == 1

(***************************************************************************)
(* Program constants.                                                      *)
(***************************************************************************)
\* alphabet.rs:15
MAX_DEPTH == 4

\* The root's parent_index sentinel, u32::MAX (alphabet.rs:52).  TLC's
\* integers are 32-bit signed, so the sentinel is the largest value they
\* hold; all that the code uses of it is that it is no index of `state`.
U32_MAX == 2147483647

\* handlers.rs:59, the selector of create(uint8,bytes32,bytes): 0x3142e55e.
CREATE_SELECTOR == 826467678

\* config.rs:38, the capacity of the outbound channel.
TX_QUEUE_CAPACITY == 128

\* drivers.rs:20-22, the hard-coded alphabet trace (one byte per leaf).
TRACE == <<16, 17, 18, 19, 20, 21, 22, 23, 24, 25, 26, 27, 28, 29, 30, 31>>

VARIABLES
    \* ---- SpecRespond ----
    g_state,          \* AlphabetGame.state: the sequence of ClaimData rows
    g_trace,          \* AlphabetGame.trace: the owner's execution trace
    r_parent_index,   \* the argument of the last respond call (-1: none yet)
    r_result,         \* what that call returned
    overflow_checks,  \* build profile: TRUE when arithmetic overflow panics
    \* ---- the outbound queue and the dispatcher (both driver specs) ----
    tx_queue,         \* the mpsc channel: calls sent and not yet received
    sent,             \* every call sent so far, in order; call k has id k - 1
    disp_pc,          \* TxDispatchDriver's position
    disp_tx,          \* the call the dispatcher is processing
    dequeued,         \* ids of the calls received, in order
    processed,        \* what became of each received call, in order
    mempool,          \* the L1 node's pending transactions, in iteration order
    \* ---- SpecOracle: the OutputProposed handler ----
    op_pc,            \* output_proposed's position
    op_log,           \* the log being handled
    op_handled,       \* number of logs taken from the subscription
    op_output_at_block, \* the trusted node's reply for this log
    op_matches,       \* compare_output_root's verdict for this log
    op_pool,          \* tx_pool_content, the mempool as the handler read it
    op_is_pending,    \* is_pending_challenge
    op_tx,            \* the create call built for this log
    op_sent,          \* the calls this handling has put on the queue
    \* ---- SpecGames: shared state, factory subscriber, watcher ----
    games,            \* GlobalState.games
    mutex,            \* the task holding the state mutex, or "free"
    chain_claims,     \* per game address, the contract's claim array
    df_pc,            \* DisputeFactoryDriver's position
    df_log,           \* the DisputeGameCreated log being handled
    df_handled,       \* number of logs taken from the subscription
    df_game_addr,     \* game_addr parsed from the log
    df_created_at,    \* created_at read from the game contract
    w_pc,             \* FaultGameWatcherDriver's position
    w_game,           \* index of the game the pass is at
    w_i,              \* index of the claim being fetched
    w_length,         \* on-chain length read for the game
    w_tx,             \* the call built from the response
    w_log,            \* in order: the lengths the watcher read that exceeded
                      \* the local length, its claimData fetches and its
                      \* respond calls
    \* ---- SpecStack: main and its JoinSet ----
    main_pc,          \* main's position
    main_result,      \* what main returned
    join_set,         \* the spawned driver tasks not yet joined
    \* ---- SpecPosition, SpecGindex: calls of the Position functions ----
    pos_in,           \* the arguments drawn for the calls
    pos_call,         \* the function called last and its flag argument
    pos_out           \* what that call returned

respondVars == <<g_state, g_trace, r_parent_index, r_result, overflow_checks>>

queueVars == <<tx_queue, sent, disp_pc, disp_tx, dequeued, processed, mempool>>

oracleVars == <<op_pc, op_log, op_handled, op_output_at_block, op_matches, op_pool, op_is_pending,
                op_tx, op_sent>>

factoryVars == <<df_pc, df_log, df_handled, df_game_addr, df_created_at>>

watcherVars == <<w_pc, w_game, w_i, w_length, w_tx, w_log>>

gamesVars == <<games, mutex, chain_claims, factoryVars, watcherVars>>

mainVars == <<main_pc, main_result, join_set>>

positionVars == <<pos_in, pos_call, pos_out>>

vars == <<respondVars, queueVars, oracleVars, gamesVars, mainVars, positionVars>>

(***************************************************************************)
(* Position algebra, position.rs:37-70 (impl Position for u128).           *)
(***************************************************************************)
RECURSIVE Pow2(_)
Pow2(n) == IF n = 0 THEN 1 ELSE 2 * Pow2(n - 1)

\* 127 - leading_zeros(p): the index of the highest set bit.
RECURSIVE depth(_)
depth(p) == IF p <= 1 THEN 0 ELSE 1 + depth(p \div 2)

index_at_depth(p) == p - Pow2(depth(p))

left(p) == p * 2

right(p) == (p * 2) + 1

\* A variant of parent that rounds up.
parent_rounds_up(p) == (p + 1) \div 2

parent(p) == p \div 2

\* A variant of make_move that adds the defence bit instead of or-ing it.
make_move_adds_bit(p, is_attack) ==
    LET bit == IF is_attack THEN 0 ELSE 1
    IN  (p + bit) * 2

\* ((!is_attack as u128) | self) << 1
make_move(p, is_attack) ==
    LET bit == IF is_attack THEN 0 ELSE 1
        ored == IF bit = 1 /\ p % 2 = 0 THEN p + 1 ELSE p
    IN  ored * 2

\* A variant of right_index that descends to the leftmost leaf.
right_index_leftmost(p, max_depth) ==
    LET remaining == max_depth - depth(p)
    IN  p * Pow2(remaining)

\* remaining = max_depth - depth; (self << remaining) | ((1 << remaining) - 1).
\* Defined for depth(p) <= max_depth; deeper positions underflow the
\* subtraction, see RightIndexOverflows.
right_index(p, max_depth) ==
    LET remaining == max_depth - depth(p)
    IN  (p * Pow2(remaining)) + (Pow2(remaining) - 1)

\* `max_depth - self.depth()` on u64 underflows when the position is deeper
\* than max_depth.
RightIndexOverflows(p, max_depth) == depth(p) > max_depth

trace_index(p, max_depth) == index_at_depth(right_index(p, max_depth))

(***************************************************************************)
(* The same functions at their machine widths, position.rs:32-44.  A u128  *)
(* or u64 is the sequence of its bits, lowest first: element k + 1 is the  *)
(* bit of weight 2^k.                                                      *)
(***************************************************************************)
\* position.rs:37, impl Position for u128.
U128_BITS == 128

\* position.rs:42, fn index_at_depth(&self) -> u64.
U64_BITS == 64

\* 1 << n at width w.
OneShl(n, w) == [k \in 1 .. w |-> IF k = n + 1 THEN 1 ELSE 0]

\* x as u128 (or any wider type): the bits above are zero.
ZeroExtend(x, w) == [k \in 1 .. w |-> IF k <= Len(x) THEN x[k] ELSE 0]

\* x as u64 (or any narrower type): the bits above are dropped.
Truncate(x, w) == SubSeq(x, 1, w)

\* The carry into bit k of a + b: some bit below k generates a carry and
\* every bit between propagates it.  The borrow into bit k of a - b
\* likewise.
CarryInto(a, b, k) ==
    IF \E j \in 1 .. (k - 1) :
          /\ a[j] = 1 /\ b[j] = 1
          /\ \A m \in (j + 1) .. (k - 1) : a[m] + b[m] >= 1
    THEN 1 ELSE 0

BorrowInto(a, b, k) ==
    IF \E j \in 1 .. (k - 1) :
          /\ a[j] = 0 /\ b[j] = 1
          /\ \A m \in (j + 1) .. (k - 1) : a[m] <= b[m]
    THEN 1 ELSE 0

\* a + b and a - b at the operands' width, without the overflow check.
WrappingAdd(a, b) ==
    [k \in 1 .. Len(a) |-> (a[k] + b[k] + CarryInto(a, b, k)) % 2]

WrappingSub(a, b) ==
    [k \in 1 .. Len(a) |-> (2 + a[k] - b[k] - BorrowInto(a, b, k)) % 2]

\* u128::leading_zeros.
leading_zeros(x) ==
    IF \A k \in 1 .. Len(x) : x[k] = 0 THEN Len(x)
    ELSE Len(x) - (CHOOSE k \in 1 .. Len(x) :
                      x[k] = 1 /\ \A m \in (k + 1) .. Len(x) : x[m] = 0)

\* position.rs:32-34: 2u128.pow(depth as u32) + index_at_depth as u128.
compute_gindex(d, index) ==
    WrappingAdd(OneShl(d, U128_BITS), ZeroExtend(index, U128_BITS))

\* position.rs:38-40: 127 - self.leading_zeros() as u64.
depth_u128(x) == (U128_BITS - 1) - leading_zeros(x)

\* A variant of index_at_depth_u128 that casts to 32 bits.
index_at_depth_u128_as_u32(x) ==
    ZeroExtend(Truncate(WrappingSub(x, OneShl(depth_u128(x), U128_BITS)), 32),
               U64_BITS)

\* position.rs:42-44: (self - (1 << self.depth())) as u64.
index_at_depth_u128(x) ==
    Truncate(WrappingSub(x, OneShl(depth_u128(x), U128_BITS)), U64_BITS)

(***************************************************************************)
(* Results.  A fallible call returns Ok(v) or Err(e) (anyhow::Result); a   *)
(* call that panics (arithmetic overflow in a build with overflow checks)  *)
(* returns nothing and is written Panic.                                   *)
(***************************************************************************)
Ok(v) == [ok |-> TRUE, val |-> v, err |-> "none"]

Err(e) == [ok |-> FALSE, val |-> <<>>, err |-> e]

Panic == Err("panic")

IsPanic(r) == ~r.ok /\ r.err = "panic"

(***************************************************************************)
(* Hashes and ABI encoding.  abi::encode of a list of uint256 tokens is    *)
(* the sequence of its 32-byte words; keccak256 is modelled as an          *)
(* injective tag on its input, so two hashes are equal exactly when their  *)
(* preimages are.  H256::default() is the zero hash.                       *)
(***************************************************************************)
abi_encode(words) == words

keccak256(bytes) == <<"keccak">> \o bytes

H256_default == <<"zero">>

Bytes_default == <<>>

(***************************************************************************)
(* AlphabetGame, alphabet.rs:29-164.  `state` is the sequence of ClaimData *)
(* rows (0-based in the code: row i is state[i + 1] here), `trace` the     *)
(* owner's execution trace; `checks` is the build's overflow-checks flag.  *)
(***************************************************************************)
\* A variant of claim_data that answers an index past the end with the
\* last row.
claim_data_clamps(state, index) ==
    IF index >= 0 /\ state # <<>>
    THEN Ok(state[IF index < Len(state) THEN index + 1 ELSE Len(state)])
    ELSE Err("Invalid claim index")

\* self.state.get(index).ok_or(anyhow!("Invalid claim index"))
claim_data(state, index) ==
    IF index >= 0 /\ index < Len(state)
    THEN Ok(state[index + 1])
    ELSE Err("Invalid claim index")

\* position.trace_index(MAX_DEPTH) as the solver evaluates it: a position
\* deeper than MAX_DEPTH underflows `max_depth - depth`.  With overflow
\* checks the subtraction panics.  Without them it wraps to 2^64 - k, the
\* shifts are taken modulo 128, and the low 64 bits of the right index are
\* all ones, so the trace index is u64::MAX, which is past every trace.
checked_trace_index(position, checks) ==
    IF RightIndexOverflows(position, MAX_DEPTH)
    THEN IF checks THEN Panic ELSE Err("wrapped")
    ELSE Ok(trace_index(position, MAX_DEPTH))

\* self.trace.get(trace_index as usize).copied().ok_or("Invalid trace index")
state_at(trace, position, checks) ==
    LET ti == checked_trace_index(position, checks)
    IN  IF IsPanic(ti) THEN Panic
        ELSE IF ~ti.ok THEN Err("Invalid trace index")
        ELSE IF ti.val < Len(trace) THEN Ok(trace[ti.val + 1])
        ELSE Err("Invalid trace index")

\* abi::encode(&[Uint(trace_index), Uint(state_at(position)?)])
encode_claim(trace, position, checks) ==
    LET ti == checked_trace_index(position, checks)
        st == state_at(trace, position, checks)
    IN  IF IsPanic(ti) THEN Panic
        ELSE IF ~st.ok THEN st
        ELSE Ok(abi_encode(<<ti.val, st.val>>))

\* keccak256(self.encode_claim(position)?)
claim_at(trace, position, checks) ==
    LET enc == encode_claim(trace, position, checks)
    IN  IF ~enc.ok THEN enc ELSE Ok(keccak256(enc.val))

(***************************************************************************)
(* Response, types.rs:34-41.                                               *)
(***************************************************************************)
DoNothing == [kind |-> "DoNothing"]

Move(is_attack, claim, secondary) ==
    [kind |-> "Move", is_attack |-> is_attack, claim |-> claim,
     secondary |-> secondary]

Step(state_index, parent_index, is_attack, state_data, proof) ==
    [kind |-> "Step", state_index |-> state_index,
     parent_index |-> parent_index, is_attack |-> is_attack,
     state_data |-> state_data, proof |-> proof]

\* Option<(usize, Claim)>
None == <<>>

Some(x) == <<x>>

(***************************************************************************)
(* AlphabetGame::respond, alphabet.rs:30-136.                              *)
(***************************************************************************)
\* A variant of step_walk that never updates state_index: it reads the row
\* at the index it started with again and again.
step_walk_rereads(state, row, state_index, leaf_pos, checks, fuel) ==
    IF RightIndexOverflows(row.position, MAX_DEPTH) /\ checks THEN Panic
    ELSE IF ~RightIndexOverflows(row.position, MAX_DEPTH)
            /\ right_index(row.position, MAX_DEPTH) = leaf_pos
    THEN Ok([state_index |-> state_index, state |-> row])
    ELSE LET next == claim_data(state, state_index)
         IN  IF ~next.ok THEN next
             ELSE IF ~RightIndexOverflows(next.val.position, MAX_DEPTH)
                     /\ right_index(next.val.position, MAX_DEPTH) = leaf_pos
             THEN Ok([state_index |-> state_index, state |-> next.val])
             ELSE Err("diverges")

\* alphabet.rs:102-106, the walk up the DAG from the parent claim:
\*   while state.position.right_index(MAX_DEPTH) != leaf_pos {
\*       state_index = state.parent_index; state = self.claim_data(state_index)?; }
\* A position deeper than MAX_DEPTH panics in a build with overflow checks
\* and otherwise wraps to a value of at least 2^64 - 1, which no leaf_pos
\* equals.  `fuel` bounds the unrolling: a walk that visits more rows than
\* the state holds has entered a cycle of parent links and never returns.
RECURSIVE step_walk(_, _, _, _, _, _)
step_walk(state, row, state_index, leaf_pos, checks, fuel) ==
    IF RightIndexOverflows(row.position, MAX_DEPTH) /\ checks THEN Panic
    ELSE IF ~RightIndexOverflows(row.position, MAX_DEPTH)
            /\ right_index(row.position, MAX_DEPTH) = leaf_pos
    THEN Ok([state_index |-> state_index, state |-> row])
    ELSE IF fuel = 0 THEN Err("diverges")
    ELSE LET next == claim_data(state, row.parent_index)
         IN  IF ~next.ok THEN next
             ELSE step_walk(state, next.val, row.parent_index, leaf_pos,
                            checks, fuel - 1)

\* A variant of respond_step that takes the prestate of an attack at the
\* parent's position.
respond_step_prestate_at_parent(state, trace, parent_index, parnt, is_attack, move_pos, checks) ==
    IF index_at_depth(move_pos) > 0
    THEN LET leaf_pos == IF is_attack THEN parnt.position - 1
                         ELSE parnt.position + 1
             found == step_walk(state, parnt, 0, leaf_pos, checks, Len(state))
         IN  IF ~found.ok THEN found
             ELSE LET state_data == encode_claim(trace, parnt.position, checks)
                  IN  IF ~state_data.ok THEN state_data
                      ELSE Ok(Step(found.val.state_index, parent_index,
                                   is_attack, state_data.val, Bytes_default))
    ELSE Ok(Step(0, parent_index, is_attack, Bytes_default, Bytes_default))

\* alphabet.rs:81-127, the Step branch.
respond_step(state, trace, parent_index, parnt, is_attack, move_pos, checks) ==
    IF index_at_depth(move_pos) > 0
    THEN LET leaf_pos == IF is_attack THEN parnt.position - 1
                         ELSE parnt.position + 1
             found == step_walk(state, parnt, 0, leaf_pos, checks, Len(state))
         IN  IF ~found.ok THEN found
             ELSE LET state_data ==
                          IF is_attack
                          THEN encode_claim(trace, found.val.state.position, checks)
                          ELSE encode_claim(trace, parnt.position, checks)
                  IN  IF ~state_data.ok THEN state_data
                      ELSE Ok(Step(found.val.state_index, parent_index,
                                   is_attack, state_data.val, Bytes_default))
    ELSE Ok(Step(0, parent_index, is_attack, Bytes_default, Bytes_default))

\* A variant of respond_move that answers with our claim at the parent's
\* own position instead of the position of the move.
respond_move_at_parent(trace, parnt, is_attack, move_pos, secondary_move_pos, checks) ==
    LET counter == claim_at(trace, parnt.position, checks)
    IN  IF ~counter.ok THEN counter
        ELSE Ok(Move(is_attack, counter.val, None))

\* alphabet.rs:129-134, the Move branch.  The secondary's counter claim is
\* claim_at(pos).unwrap_or_default(): an error becomes the zero hash.
respond_move(trace, parnt, is_attack, move_pos, secondary_move_pos, checks) ==
    LET counter == claim_at(trace, move_pos, checks)
        second  == IF secondary_move_pos = None THEN Ok(None)
                   ELSE LET c == claim_at(trace, secondary_move_pos[1], checks)
                        IN  IF IsPanic(c) THEN Panic
                            ELSE Ok(Some(<<parnt.parent_index,
                                           IF c.ok THEN c.val ELSE H256_default>>))
    IN  IF ~counter.ok THEN counter
        ELSE IF ~second.ok THEN second
        ELSE Ok(Move(is_attack, counter.val, second.val))

\* A variant of respond_tail that steps only past depth MAX_DEPTH + 1.
respond_tail_steps_late(state, trace, parent_index, parnt, is_attack, secondary_move_pos, checks) ==
    LET move_pos == make_move(parnt.position, is_attack)
    IN  IF depth(move_pos) > MAX_DEPTH + 1
        THEN respond_step(state, trace, parent_index, parnt, is_attack, move_pos, checks)
        ELSE respond_move(trace, parnt, is_attack, move_pos, secondary_move_pos, checks)

\* alphabet.rs:76-135: the primary move position and the choice between a
\* step and a move.
respond_tail(state, trace, parent_index, parnt, is_attack, secondary_move_pos, checks) ==
    LET move_pos == make_move(parnt.position, is_attack)
    IN  IF depth(move_pos) > MAX_DEPTH
        THEN respond_step(state, trace, parent_index, parnt, is_attack, move_pos, checks)
        ELSE respond_move(trace, parnt, is_attack, move_pos, secondary_move_pos, checks)

\* A variant of respond_disagree that never attacks the grandparent.
respond_disagree_no_secondary(state, trace, parent_index, parnt, checks) ==
    IF parnt.parent_index # U32_MAX
    THEN LET grandparent == claim_data(state, parnt.parent_index)
         IN  IF ~grandparent.ok THEN grandparent
             ELSE LET our_grandparent_claim ==
                          claim_at(trace, grandparent.val.position, checks)
                  IN  IF ~our_grandparent_claim.ok THEN our_grandparent_claim
                      ELSE respond_tail(state, trace, parent_index, parnt, TRUE,
                                        None, checks)
    ELSE respond_tail(state, trace, parent_index, parnt, TRUE, None, checks)

\* alphabet.rs:47-60: we disagree with the parent; the move is an attack
\* and, when the parent is not the root, the grandparent is checked too.
respond_disagree(state, trace, parent_index, parnt, checks) ==
    IF parnt.parent_index # U32_MAX
    THEN LET grandparent == claim_data(state, parnt.parent_index)
         IN  IF ~grandparent.ok THEN grandparent
             ELSE LET our_grandparent_claim ==
                          claim_at(trace, grandparent.val.position, checks)
                  IN  IF ~our_grandparent_claim.ok THEN our_grandparent_claim
                      ELSE respond_tail(state, trace, parent_index, parnt, TRUE,
                               IF our_grandparent_claim.val # grandparent.val.claim
                               THEN Some(make_move(grandparent.val.position, TRUE))
                               ELSE None,
                               checks)
    ELSE respond_tail(state, trace, parent_index, parnt, TRUE, None, checks)

\* A variant of respond_agree that defends the parent whatever we hold of
\* the grandparent.
respond_agree_always_defend(state, trace, parent_index, parnt, checks) ==
    IF parnt.parent_index = U32_MAX THEN Ok(DoNothing)
    ELSE respond_tail(state, trace, parent_index, parnt, FALSE, None, checks)

\* alphabet.rs:61-74: we agree with the parent.
respond_agree(state, trace, parent_index, parnt, checks) ==
    IF parnt.parent_index = U32_MAX THEN Ok(DoNothing)
    ELSE LET grandparent == claim_data(state, parnt.parent_index)
         IN  IF ~grandparent.ok THEN grandparent
             ELSE LET our_grandparent_claim ==
                          claim_at(trace, grandparent.val.position, checks)
                  IN  IF ~our_grandparent_claim.ok THEN our_grandparent_claim
                      ELSE IF our_grandparent_claim.val # grandparent.val.claim
                      THEN Ok(DoNothing)
                      ELSE respond_tail(state, trace, parent_index, parnt,
                                        FALSE, None, checks)

respond(state, trace, parent_index, checks) ==
    LET parnt == claim_data(state, parent_index)
    IN  IF ~parnt.ok THEN parnt
        ELSE LET our_parent_claim == claim_at(trace, parnt.val.position, checks)
             IN  IF ~our_parent_claim.ok THEN our_parent_claim
                 ELSE IF our_parent_claim.val # parnt.val.claim
                 THEN respond_disagree(state, trace, parent_index, parnt.val, checks)
                 ELSE respond_agree(state, trace, parent_index, parnt.val, checks)

(***************************************************************************)
(* The FaultDisputeGame contract's claim array, bindings.rs:20-33: the     *)
(* rows claimData(i) the agent reads.  The contract creates the root at    *)
(* position 1 with the sentinel parent; attack(parent, claim) and          *)
(* defend(parent, claim) append a row at make_move(parent.position, _),    *)
(* never deeper than the game's depth and never defending the root.        *)
(***************************************************************************)
\* One ClaimData row (types.rs:19-30); the clock is not read by the solver
\* and is left out.
ClaimData(parent_index, claim, position) ==
    [parent_index |-> parent_index, countered |-> FALSE, claim |-> claim,
     position |-> position]

\* The claim the owner of TRACE holds at `position`.
OurClaim(position) == claim_at(TRACE, position, FALSE).val

\* A claim of a participant whose trace differs from ours at that leaf.
TheirClaim(position) ==
    keccak256(abi_encode(<<trace_index(position, MAX_DEPTH), 0>>))

\* The claims a participant may post at `position`.
PostedClaims(position) == {OurClaim(position), TheirClaim(position)}

\* The rows the contract may append to the claim array `rows`.
NextRows(rows) ==
    IF rows = <<>>
    THEN {ClaimData(U32_MAX, c, 1) : c \in PostedClaims(1)}
    ELSE UNION {
           UNION {
             LET pos == make_move(rows[pi + 1].position, atk)
             IN  IF depth(pos) <= MAX_DEPTH /\ (atk \/ pi # 0)
                 THEN {ClaimData(pi, c, pos) : c \in PostedClaims(pos)}
                 ELSE {}
             : atk \in BOOLEAN}
           : pi \in 0 .. (Len(rows) - 1)}

(***************************************************************************)
(* 32-byte words.  A word is kept as its low eight bytes `lo` and the      *)
(* 24 bytes above them `hi`, both read as big-endian integers: an H256,    *)
(* a U256, an event topic and a calldata word are all such words.          *)
(***************************************************************************)
Word(hi, lo) == [hi |-> hi, lo |-> lo]

\* U256::from(v) for a u8 or u64 value v.
U256_from(v) == Word(0, v)

\* H256::to_low_u64_be: the low eight bytes of the word.
to_low_u64_be(w) == w.lo

\* [0u8; 32]
ZERO_WORD == Word(0, 0)

\* types.rs:16-20 (enum GameType, repr(u8)).
GameType_Fault == 0

GameType_Validity == 1

GameType_OutputAttestation == 2

\* The two output roots of scenarios S2-S4, 0xaa..aa and 0xbb..bb.
ROOT_AA == Word(170, 170)

ROOT_BB == Word(187, 187)

Roots == {ROOT_AA, ROOT_BB}

\* config.rs:20, the dispute game factory's address, and another account.
FACTORY == "factory"

OTHER_ACCOUNT == "other"

(***************************************************************************)
(* Transactions.  Calldata is the 4-byte selector followed by 32-byte      *)
(* words; a transaction whose calldata ends early has fewer words.         *)
(***************************************************************************)
TypedTransaction(to, sel, words) ==
    [to |-> to, sel |-> sel, words |-> words, gas |-> 0, gas_price |-> 0]

\* factory.create(gameType, rootClaim, extraData).tx, bindings.rs:4-9:
\* selector | uint8 gameType | bytes32 rootClaim | offset 0x60 | length | data
create(gameType, rootClaim, extraData) ==
    TypedTransaction(FACTORY, CREATE_SELECTOR,
        <<U256_from(gameType), rootClaim, U256_from(96),
          U256_from(32 * Len(extraData))>> \o extraData)

\* A variant of challenge_creation_tx that creates an OutputAttestation game.
challenge_creation_tx_attestation(proposed_root, proposed_block) ==
    create(GameType_OutputAttestation, ZERO_WORD,
           abi_encode(<<U256_from(proposed_block)>>))

\* handlers.rs:76-91, the call the handler builds on a mismatch:
\* create(GameType::Fault as u8, [0u8; 32], abi.encode(uint256 proposed_block)).
challenge_creation_tx(proposed_root, proposed_block) ==
    create(GameType_Fault, ZERO_WORD, abi_encode(<<U256_from(proposed_block)>>))

\* handlers.rs:57-62, the closure applied to one pending transaction.
\* Slicing input[4..36] or input[36..68] past the end of the calldata
\* panics; `&&` evaluates its operands left to right and stops at the first
\* false one.
tx_is_challenge(tx, proposed_root) ==
    IF tx.to # FACTORY THEN Ok(FALSE)
    ELSE IF tx.sel # CREATE_SELECTOR THEN Ok(FALSE)
    ELSE IF Len(tx.words) < 1 THEN Panic
    ELSE IF tx.words[1] # U256_from(GameType_OutputAttestation) THEN Ok(FALSE)
    ELSE IF Len(tx.words) < 2 THEN Panic
    ELSE Ok(tx.words[2] = proposed_root)

\* handlers.rs:51-64, `any` over the pending transactions in iteration
\* order: it stops at the first transaction the closure accepts.
RECURSIVE is_pending_challenge(_, _)
is_pending_challenge(pool, proposed_root) ==
    IF pool = <<>> THEN Ok(FALSE)
    ELSE LET first == tx_is_challenge(Head(pool), proposed_root)
         IN  IF ~first.ok THEN first
             ELSE IF first.val THEN Ok(TRUE)
             ELSE is_pending_challenge(Tail(pool), proposed_root)

\* A variant of compare_output_root that reads a failed request as a
\* mismatch.
compare_output_root_failure_is_mismatch(reply, untrusted_root) ==
    IF ~reply.ok THEN Ok([matches |-> FALSE, output_root |-> ZERO_WORD])
    ELSE Ok([matches |-> untrusted_root = reply.val, output_root |-> reply.val])

\* A variant of compare_output_root that never reports a match.
compare_output_root_never_matches(reply, untrusted_root) ==
    IF ~reply.ok THEN reply
    ELSE Ok([matches |-> FALSE, output_root |-> reply.val])

\* utils.rs:20-33, compare_output_root given the node's reply to
\* optimism_outputAtBlock: Err on a transport or decoding failure,
\* otherwise (untrusted_root == trusted.output_root, trusted).
compare_output_root(reply, untrusted_root) ==
    IF ~reply.ok THEN reply
    ELSE Ok([matches |-> untrusted_root = reply.val, output_root |-> reply.val])

(***************************************************************************)
(* The outbound queue, config.rs:37-47 (mpsc::channel(128)).  Each call is *)
(* numbered as it is sent, so that the order of sending can be compared    *)
(* with the order of receiving.                                            *)
(***************************************************************************)
QueueIdle ==
    /\ tx_queue = <<>>
    /\ sent = <<>>
    /\ disp_pc = "recv"
    /\ disp_tx = <<>>
    /\ dequeued = <<>>
    /\ processed = <<>>
    /\ mempool = <<>>

\* tx_sender.send(tx).await completes when the channel has room.
CanSend == Len(tx_queue) < TX_QUEUE_CAPACITY

\* The call as the channel carries it.
Call(producer, tx) == [id |-> Len(sent), producer |-> producer, tx |-> tx]

\* tx_sender.send(tx) by `producer`.
Send(producer, tx) ==
    /\ CanSend
    /\ tx_queue' = Append(tx_queue, Call(producer, tx))
    /\ sent' = Append(sent, Call(producer, tx))

(***************************************************************************)
(* TxDispatchDriver, drivers.rs:54-99.  One step per await: recv,          *)
(* estimate_gas, get_gas_price, send_transaction.                          *)
(***************************************************************************)
\* The provider's replies to eth_estimateGas and eth_gasPrice.
GasEstimates == {Err("rpc"), Ok(21000)}

GasPrices == {Err("rpc"), Ok(7)}

\* A variant of DispRecv that takes the state mutex before it receives.
DispRecv_under_state_mutex ==
    /\ disp_pc = "recv"
    /\ mutex = "free"
    /\ tx_queue # <<>>
    /\ disp_tx' = <<Head(tx_queue)>>
    /\ tx_queue' = Tail(tx_queue)
    /\ dequeued' = Append(dequeued, Head(tx_queue).id)
    /\ disp_pc' = "estimate_gas"
    /\ UNCHANGED <<sent, processed, mempool>>
    /\ UNCHANGED <<mainVars, positionVars, respondVars, oracleVars, gamesVars>>

\* A variant of DispRecv that takes the call sent last.
DispRecv_newest ==
    /\ disp_pc = "recv"
    /\ tx_queue # <<>>
    /\ disp_tx' = <<tx_queue[Len(tx_queue)]>>
    /\ tx_queue' = SubSeq(tx_queue, 1, Len(tx_queue) - 1)
    /\ dequeued' = Append(dequeued, tx_queue[Len(tx_queue)].id)
    /\ disp_pc' = "estimate_gas"
    /\ UNCHANGED <<sent, processed, mempool>>
    /\ UNCHANGED <<mainVars, positionVars, respondVars, oracleVars, gamesVars>>

\* drivers.rs:62, `while let Some(mut tx) = locked_receive_ch.recv().await`.
DispRecv ==
    /\ disp_pc = "recv"
    /\ tx_queue # <<>>
    /\ disp_tx' = <<Head(tx_queue)>>
    /\ tx_queue' = Tail(tx_queue)
    /\ dequeued' = Append(dequeued, Head(tx_queue).id)
    /\ disp_pc' = "estimate_gas"
    /\ UNCHANGED <<sent, processed, mempool>>
    /\ UNCHANGED <<mainVars, positionVars, respondVars, oracleVars, gamesVars>>

\* drivers.rs:66-83: on Ok(gas) set the gas and go on to price the call; on
\* Err log and `continue` with the next call.
DispEstimateGas ==
    /\ disp_pc = "estimate_gas"
    /\ \E reply \in GasEstimates :
         IF reply.ok
         THEN /\ disp_tx' = <<[disp_tx[1] EXCEPT !.tx.gas = reply.val]>>
              /\ disp_pc' = "get_gas_price"
              /\ UNCHANGED processed
         ELSE /\ processed' = Append(processed,
                     [id |-> disp_tx[1].id, outcome |-> "dropped", tx |-> disp_tx[1].tx])
              /\ disp_tx' = <<>>
              /\ disp_pc' = "recv"
    /\ UNCHANGED <<tx_queue, sent, dequeued, mempool>>
    /\ UNCHANGED <<mainVars, positionVars, respondVars, oracleVars, gamesVars>>

\* A variant of DispGasPrice whose fallback price is not doubled.
DispGasPrice_floor_unscaled ==
    /\ disp_pc = "get_gas_price"
    /\ \E reply \in GasPrices :
         disp_tx' = <<[disp_tx[1] EXCEPT
                          !.tx.gas_price = IF reply.ok THEN reply.val * 2 ELSE 1]>>
    /\ disp_pc' = "send_transaction"
    /\ UNCHANGED <<tx_queue, sent, dequeued, processed, mempool>>
    /\ UNCHANGED <<mainVars, positionVars, respondVars, oracleVars, gamesVars>>

\* drivers.rs:70-77: get_gas_price().await.unwrap_or(U256::one()) * 2.
DispGasPrice ==
    /\ disp_pc = "get_gas_price"
    /\ \E reply \in GasPrices :
         disp_tx' = <<[disp_tx[1] EXCEPT
                          !.tx.gas_price = (IF reply.ok THEN reply.val ELSE 1) * 2]>>
    /\ disp_pc' = "send_transaction"
    /\ UNCHANGED <<tx_queue, sent, dequeued, processed, mempool>>
    /\ UNCHANGED <<mainVars, positionVars, respondVars, oracleVars, gamesVars>>

\* A variant of DispSend that submits the call again after a failure.
DispSend_retry ==
    /\ disp_pc = "send_transaction"
    /\ \E accepted \in BOOLEAN :
         /\ processed' = Append(processed,
                [id |-> disp_tx[1].id,
                 outcome |-> IF accepted THEN "sent" ELSE "send_failed",
                 tx |-> disp_tx[1].tx])
         /\ mempool' = IF accepted THEN Append(mempool, disp_tx[1].tx) ELSE mempool
         /\ disp_tx' = IF accepted THEN <<>> ELSE disp_tx
         /\ disp_pc' = IF accepted THEN "recv" ELSE "send_transaction"
    /\ UNCHANGED <<tx_queue, sent, dequeued>>
    /\ UNCHANGED <<mainVars, positionVars, respondVars, oracleVars, gamesVars>>

\* drivers.rs:85-93: send_transaction; a sent transaction is pending on L1,
\* a failure is logged and the loop goes on.
DispSend ==
    /\ disp_pc = "send_transaction"
    /\ \E accepted \in BOOLEAN :
         /\ processed' = Append(processed,
                [id |-> disp_tx[1].id,
                 outcome |-> IF accepted THEN "sent" ELSE "send_failed",
                 tx |-> disp_tx[1].tx])
         /\ mempool' = IF accepted THEN Append(mempool, disp_tx[1].tx) ELSE mempool
    /\ disp_tx' = <<>>
    /\ disp_pc' = "recv"
    /\ UNCHANGED <<tx_queue, sent, dequeued>>
    /\ UNCHANGED <<mainVars, positionVars, respondVars, oracleVars, gamesVars>>

(***************************************************************************)
(* The L1 mempool as other senders change it.                              *)
(***************************************************************************)
\* Transactions other senders submit: create calls for root 0xaa..aa with
\* game type Fault and OutputAttestation, a create call whose calldata is
\* the selector alone, and a create call sent to another account.
ForeignTxs ==
    { create(GameType_Fault, ROOT_AA, <<U256_from(16)>>),
      create(GameType_OutputAttestation, ROOT_AA, <<U256_from(16)>>),
      TypedTransaction(FACTORY, CREATE_SELECTOR, <<>>),
      [create(GameType_OutputAttestation, ROOT_AA, <<U256_from(16)>>)
          EXCEPT !.to = OTHER_ACCOUNT] }

\* Another sender's transaction becomes pending.
MempoolAdd ==
    /\ Len(mempool) < MaxPending
    /\ \E tx \in ForeignTxs : mempool' = Append(mempool, tx)
    /\ UNCHANGED <<tx_queue, sent, disp_pc, disp_tx, dequeued, processed>>
    /\ UNCHANGED <<mainVars, positionVars, respondVars, oracleVars, gamesVars>>

\* A pending transaction is included in a block and leaves the mempool.
MempoolInclude ==
    /\ mempool # <<>>
    /\ mempool' = Tail(mempool)
    /\ UNCHANGED <<tx_queue, sent, disp_pc, disp_tx, dequeued, processed>>
    /\ UNCHANGED <<mainVars, positionVars, respondVars, oracleVars, gamesVars>>

(***************************************************************************)
(* output_proposed, handlers.rs:16-104, run once per OutputProposed log.   *)
(* One step per await: the log's arrival, compare_output_root,             *)
(* txpool_content, tx_sender.send.                                         *)
(***************************************************************************)
\* OutputProposed(bytes32 indexed outputRoot, uint256 indexed l2OutputIndex,
\* uint256 indexed l2BlockNumber, uint256 l1Timestamp), bindings.rs:12-17:
\* topics 0..3, possibly cut short.
OUTPUT_PROPOSED_TOPIC0 == Word(1, 1)

L2BlockNumbers == {Word(0, 16), Word(1, 16)}

OutputProposedLogs ==
    { [topics |-> SubSeq(<<OUTPUT_PROPOSED_TOPIC0, root, U256_from(0), blk>>, 1, n)]
        : root \in Roots, blk \in L2BlockNumbers, n \in 1 .. 4 }

\* The trusted node's replies to optimism_outputAtBlock.
OutputAtBlockReplies == {Err("rpc")} \cup {Ok(root) : root \in Roots}

NoLog == [topics |-> <<>>]

OracleIdle ==
    /\ op_pc = "idle"
    /\ op_log = NoLog
    /\ op_handled = 0
    /\ op_output_at_block = Err("unset")
    /\ op_matches = "unset"
    /\ op_pool = Err("unset")
    /\ op_is_pending = "unset"
    /\ op_tx = <<>>
    /\ op_sent = <<>>

\* handlers.rs:21-31: topic 1 is the proposed root, the low eight bytes of
\* topic 3 the proposed block; a missing topic is an error.
proposed_root == op_log.topics[2]

proposed_block == to_low_u64_be(op_log.topics[4])

OpRecv ==
    /\ op_pc = "idle"
    /\ op_handled < MaxOracleLogs
    /\ \E log \in OutputProposedLogs :
         /\ op_log' = log
         /\ op_pc' = IF Len(log.topics) < 2 \/ Len(log.topics) < 4
                     THEN "failed" ELSE "compare"
    /\ op_handled' = op_handled + 1
    /\ op_output_at_block' = Err("unset")
    /\ op_matches' = "unset"
    /\ op_pool' = Err("unset")
    /\ op_is_pending' = "unset"
    /\ op_tx' = <<>>
    /\ op_sent' = <<>>
    /\ UNCHANGED <<mainVars, positionVars, queueVars, respondVars, gamesVars>>

\* handlers.rs:33-45 and 97-100: a failure of the trusted node is logged
\* and the handler returns Ok(()); so does a match.
OpCompare ==
    /\ op_pc = "compare"
    /\ \E reply \in OutputAtBlockReplies :
         LET res == compare_output_root(reply, proposed_root)
         IN  /\ op_output_at_block' = reply
             /\ IF ~res.ok
                THEN /\ op_matches' = "error"
                     /\ op_pc' = "idle"
                ELSE IF res.val.matches
                THEN /\ op_matches' = "yes"
                     /\ op_pc' = "idle"
                ELSE /\ op_matches' = "no"
                     /\ op_pc' = "txpool"
    /\ UNCHANGED <<op_log, op_handled, op_pool, op_is_pending, op_tx, op_sent>>
    /\ UNCHANGED <<mainVars, positionVars, queueVars, respondVars, gamesVars>>

\* handlers.rs:50-94: txpool_content().await? and the search for a pending
\* challenge; without one the create call is built.
OpTxpool ==
    /\ op_pc = "txpool"
    /\ \E reply \in {Err("rpc"), Ok(mempool)} :
         /\ op_pool' = reply
         /\ IF ~reply.ok
            THEN /\ op_pc' = "failed"
                 /\ UNCHANGED <<op_is_pending, op_tx>>
            ELSE LET found == is_pending_challenge(reply.val, proposed_root)
                 IN  IF ~found.ok
                     THEN /\ op_pc' = "panicked"
                          /\ op_is_pending' = "panic"
                          /\ UNCHANGED op_tx
                     ELSE IF found.val
                     THEN /\ op_pc' = "idle"
                          /\ op_is_pending' = "yes"
                          /\ UNCHANGED op_tx
                     ELSE /\ op_pc' = "send"
                          /\ op_is_pending' = "no"
                          /\ op_tx' = <<challenge_creation_tx(proposed_root, proposed_block)>>
    /\ UNCHANGED <<op_log, op_handled, op_output_at_block, op_matches, op_sent>>
    /\ UNCHANGED <<mainVars, positionVars, queueVars, respondVars, gamesVars>>

\* handlers.rs:77-91: config.tx_sender.send(tx).await?
OpSend ==
    /\ op_pc = "send"
    /\ Send("output_proposed", op_tx[1])
    /\ op_sent' = Append(op_sent, op_tx[1])
    /\ op_pc' = "idle"
    /\ UNCHANGED <<op_log, op_handled, op_output_at_block, op_matches, op_pool,
                   op_is_pending, op_tx>>
    /\ UNCHANGED <<disp_pc, disp_tx, dequeued, processed, mempool>>
    /\ UNCHANGED <<mainVars, positionVars, respondVars, gamesVars>>

(***************************************************************************)
(* GlobalState and the chain side of the fault games.                      *)
(***************************************************************************)
\* The proxies the factory deploys.
GameAddrs == {"game1", "game2"}

\* AlphabetGame as DisputeFactoryDriver builds it, drivers.rs:153-158.
AlphabetGame(address, created_at, state, trace) ==
    [address |-> address, created_at |-> created_at, state |-> state,
     trace |-> trace]

\* DisputeGameCreated(address indexed proxy, uint8 indexed gameType,
\* bytes32 indexed rootClaim), bindings.rs:4-9, possibly cut short.  Topic 1
\* is the proxy left-padded to 32 bytes, topic 2 the game type in its last
\* byte.  The log also records what the OutputAttestation contract at the
\* proxy would answer: challenges(self), and whether ROOT_CLAIM differs
\* from the trusted node's output root.
DISPUTE_GAME_CREATED_TOPIC0 == Word(2, 2)

AddressTopic(addr) == [pad |-> 0, addr |-> addr]

GameTypeTopic(high, byte) == [high |-> high, byte |-> byte]

DisputeGameCreatedLogs(proxy) ==
    { [topics |-> SubSeq(<<DISPUTE_GAME_CREATED_TOPIC0, AddressTopic(proxy),
                           GameTypeTopic(high, byte), ROOT_AA>>, 1, n),
       self_is_creator |-> creator,
       root_claim_differs |-> differs]
        : high \in {0, 1}, byte \in 0 .. 3, n \in {1, 2, 4},
          creator \in BOOLEAN, differs \in BOOLEAN }

\* A variant of GameType_try_from that reads an unknown value as Fault.
GameType_try_from_defaults(value) ==
    IF value \in {GameType_Fault, GameType_Validity, GameType_OutputAttestation}
    THEN Ok(value)
    ELSE Ok(GameType_Fault)

\* GameType::try_from(u8), types.rs:22-33.
GameType_try_from(value) ==
    IF value \in {GameType_Fault, GameType_Validity, GameType_OutputAttestation}
    THEN Ok(value)
    ELSE Err("Invalid game type")

\* A variant of game_type_u8 that reads a missing topic as zero.
game_type_u8_defaults(log) ==
    IF Len(log.topics) < 3 THEN Ok(0)
    ELSE Ok(log.topics[3].byte)

\* drivers.rs:122-131: the game type is the last byte of topic 2, the game
\* address the last 20 bytes of topic 1; a missing topic is an error.
game_type_u8(log) ==
    IF Len(log.topics) < 3 THEN Err("gameType field not present")
    ELSE Ok(log.topics[3].byte)

game_addr(log) ==
    IF Len(log.topics) < 2 THEN Err("disputeProxy field not present")
    ELSE Ok(log.topics[2].addr)

GamesIdle ==
    /\ games = <<>>
    /\ mutex = "free"
    /\ chain_claims = [a \in GameAddrs |-> <<>>]
    /\ df_pc = "idle"
    /\ df_log = NoLog
    /\ df_handled = 0
    /\ df_game_addr = "none"
    /\ df_created_at = 0
    /\ w_pc = "lock"
    /\ w_game = 0
    /\ w_i = 0
    /\ w_length = 0
    /\ w_tx = <<>>
    /\ w_log = <<>>

\* The claims posted so far after the root claims.
ChainPosts ==
    Cardinality(UNION {{<<a, k>> : k \in 2 .. Len(chain_claims[a])} : a \in GameAddrs})

\* A participant posts a claim in a game that exists on chain.
ChainPost ==
    /\ ChainPosts < MaxChainPosts
    /\ \E a \in GameAddrs :
         /\ chain_claims[a] # <<>>
         /\ \E row \in NextRows(chain_claims[a]) :
              chain_claims' = [chain_claims EXCEPT ![a] = Append(@, row)]
    /\ UNCHANGED <<games, mutex, factoryVars, watcherVars>>
    /\ UNCHANGED <<mainVars, positionVars, respondVars, queueVars, oracleVars>>

(***************************************************************************)
(* DisputeFactoryDriver, drivers.rs:101-177.  One step per await: the      *)
(* log's arrival, created_at, the state mutex.                             *)
(***************************************************************************)
\* The clock reading the game contract returns for createdAt().
CREATED_AT == 1700

\* A variant of DfNotSupported that puts a challenge call on the queue.
DfChallenges ==
    /\ df_pc' = "idle"
    /\ Send("dispute_factory", TypedTransaction(df_game_addr', "challenge", <<>>))

\* drivers.rs:161-170: the Validity and OutputAttestation arms log that the
\* game type is not yet supported, the unknown type logs and continues; the
\* subscriber goes on to the next log.
DfNotSupported ==
    /\ df_pc' = "idle"
    /\ UNCHANGED <<tx_queue, sent>>

\* drivers.rs:118-171 up to the first await of the chosen arm.  The factory
\* deploys each proxy once; a fault game starts with its root claim.
DfRecv ==
    /\ df_pc = "idle"
    /\ df_handled < MaxFactoryLogs
    /\ \E proxy \in GameAddrs : \E log \in DisputeGameCreatedLogs(proxy) :
         \* only an OutputAttestation game has the answers the log records
         /\ (Len(log.topics) < 3 \/ log.topics[3].byte # GameType_OutputAttestation)
                => (~log.self_is_creator /\ ~log.root_claim_differs)
         /\ Len(log.topics) < 3 => proxy = "game1"
         /\ chain_claims[proxy] = <<>>
         /\ \A k \in 1 .. Len(games) : games[k].address # proxy
         /\ df_log' = log
         /\ LET gt   == game_type_u8(log)
                addr == game_addr(log)
            IN  IF ~gt.ok \/ ~addr.ok
                THEN /\ df_pc' = "failed"
                     /\ UNCHANGED <<df_game_addr, chain_claims>>
                ELSE /\ df_game_addr' = addr.val
                     /\ IF GameType_try_from(gt.val) = Ok(GameType_Fault)
                        THEN /\ df_pc' = "created_at"
                             /\ \E row \in NextRows(<<>>) :
                                  chain_claims' = [chain_claims EXCEPT ![proxy] = <<row>>]
                        ELSE /\ DfNotSupported
                             /\ UNCHANGED chain_claims
         /\ (df_pc' # "idle") => UNCHANGED <<tx_queue, sent>>
    /\ df_handled' = df_handled + 1
    /\ UNCHANGED <<games, mutex, df_created_at, watcherVars>>
    /\ UNCHANGED <<disp_pc, disp_tx, dequeued, processed, mempool>>
    /\ UNCHANGED <<mainVars, positionVars, respondVars, oracleVars>>

\* drivers.rs:144: game.created_at().await?
DfCreatedAt ==
    /\ df_pc = "created_at"
    /\ \E reply \in {Err("rpc"), Ok(CREATED_AT)} :
         IF reply.ok
         THEN /\ df_created_at' = reply.val
              /\ df_pc' = "lock"
         ELSE /\ df_pc' = "failed"
              /\ UNCHANGED df_created_at
    /\ UNCHANGED <<games, mutex, chain_claims, df_log, df_handled, df_game_addr, watcherVars>>
    /\ UNCHANGED <<mainVars, positionVars, respondVars, queueVars, oracleVars>>

\* A variant of DfLock that does not wait for the mutex to be free.
DfLock_unguarded ==
    /\ df_pc = "lock"
    /\ mutex' = "factory"
    /\ df_pc' = "push"
    /\ UNCHANGED <<games, chain_claims, df_log, df_handled, df_game_addr, df_created_at, watcherVars>>
    /\ UNCHANGED <<mainVars, positionVars, respondVars, queueVars, oracleVars>>

\* drivers.rs:152: self.state.lock().await
DfLock ==
    /\ df_pc = "lock"
    /\ mutex = "free"
    /\ mutex' = "factory"
    /\ df_pc' = "push"
    /\ UNCHANGED <<games, chain_claims, df_log, df_handled, df_game_addr, df_created_at, watcherVars>>
    /\ UNCHANGED <<mainVars, positionVars, respondVars, queueVars, oracleVars>>

\* The game DisputeFactoryDriver pushes, drivers.rs:153-158.
new_game(address, created_at) ==
    AlphabetGame(address, created_at, <<>>, TRACE)

\* A variant of DfPush that puts the new game in the place of the last one.
DfPush_replaces_last ==
    /\ df_pc = "push"
    /\ games' = IF games = <<>> THEN <<new_game(df_game_addr, df_created_at)>>
                 ELSE [games EXCEPT ![Len(games)] = new_game(df_game_addr, df_created_at)]
    /\ mutex' = "free"
    /\ df_pc' = "idle"
    /\ UNCHANGED <<chain_claims, df_log, df_handled, df_game_addr, df_created_at, watcherVars>>
    /\ UNCHANGED <<mainVars, positionVars, respondVars, queueVars, oracleVars>>

\* drivers.rs:153-160: push the game; the guard is dropped at the end of
\* the arm.
DfPush ==
    /\ df_pc = "push"
    /\ games' = Append(games, new_game(df_game_addr, df_created_at))
    /\ mutex' = "free"
    /\ df_pc' = "idle"
    /\ UNCHANGED <<chain_claims, df_log, df_handled, df_game_addr, df_created_at, watcherVars>>
    /\ UNCHANGED <<mainVars, positionVars, respondVars, queueVars, oracleVars>>

(***************************************************************************)
(* FaultGameWatcherDriver, drivers.rs:180-299.  One step per await: the    *)
(* state mutex, get_storage_at, claim_data, tx_sender.send, sleep.         *)
(***************************************************************************)
\* The calls of the FaultDisputeGame binding, bindings.rs:20-33.
attack(address, parent_index, pivot) ==
    TypedTransaction(address, "attack", <<parent_index, pivot>>)

defend(address, parent_index, pivot) ==
    TypedTransaction(address, "defend", <<parent_index, pivot>>)

step(address, state_index, claim_index, is_attack, state_data, proof) ==
    TypedTransaction(address, "step",
        <<state_index, claim_index, is_attack, state_data, proof>>)

\* A variant of response_tx that also turns a Move's secondary into the
\* call, in place of the primary move.
response_tx_sends_secondary(address, i, res) ==
    IF ~res.ok THEN <<>>
    ELSE IF res.val.kind = "Move"
    THEN IF res.val.secondary # None
         THEN <<attack(address, res.val.secondary[1][1], res.val.secondary[1][2])>>
         ELSE IF res.val.is_attack
         THEN <<attack(address, i, res.val.claim)>>
         ELSE <<defend(address, i, res.val.claim)>>
    ELSE IF res.val.kind = "Step"
    THEN <<step(address, res.val.state_index, res.val.parent_index,
                res.val.is_attack, res.val.state_data, res.val.proof)>>
    ELSE <<>>

\* A variant of response_tx that answers a failed respond with an attack.
response_tx_error_attacks(address, i, res) ==
    IF ~res.ok THEN <<attack(address, i, H256_default)>>
    ELSE IF res.val.kind = "Move"
    THEN IF res.val.is_attack
         THEN <<attack(address, i, res.val.claim)>>
         ELSE <<defend(address, i, res.val.claim)>>
    ELSE IF res.val.kind = "Step"
    THEN <<step(address, res.val.state_index, res.val.parent_index,
                res.val.is_attack, res.val.state_data, res.val.proof)>>
    ELSE <<>>

\* drivers.rs:235-277: the call built from respond's result for claim i, if
\* any: a Move becomes attack(i, claim) or defend(i, claim), a Step becomes
\* step(..), DoNothing and an error become nothing.
response_tx(address, i, res) ==
    IF ~res.ok THEN <<>>
    ELSE IF res.val.kind = "Move"
    THEN IF res.val.is_attack
         THEN <<attack(address, i, res.val.claim)>>
         ELSE <<defend(address, i, res.val.claim)>>
    ELSE IF res.val.kind = "Step"
    THEN <<step(address, res.val.state_index, res.val.parent_index,
                res.val.is_attack, res.val.state_data, res.val.proof)>>
    ELSE <<>>

\* A variant of WatcherAdvance that keeps the guard while it sleeps.
WatcherAdvance_keeps_guard(g, i, length, ngames) ==
    IF i + 1 < length
    THEN /\ w_pc' = "claim_data"
         /\ w_game' = g
         /\ w_i' = i + 1
         /\ mutex' = mutex
    ELSE IF g + 1 < ngames
    THEN /\ w_pc' = "get_storage_at"
         /\ w_game' = g + 1
         /\ w_i' = 0
         /\ mutex' = mutex
    ELSE /\ w_pc' = "sleep"
         /\ w_game' = 0
         /\ w_i' = 0
         /\ mutex' = mutex

\* A variant of WatcherAdvance that leaves a game after one claim.
WatcherAdvance_one_claim(g, i, length, ngames) ==
    IF g + 1 < ngames
    THEN /\ w_pc' = "get_storage_at"
         /\ w_game' = g + 1
         /\ w_i' = 0
         /\ mutex' = mutex
    ELSE /\ w_pc' = "sleep"
         /\ w_game' = 0
         /\ w_i' = 0
         /\ mutex' = "free"

\* The watcher moves on from claim i of game g: to claim i + 1 while the
\* length read for the game is not reached, then to the next game, and
\* after the last game drops the guard and sleeps (drivers.rs:215, 188,
\* 289-295).
WatcherAdvance(g, i, length, ngames) ==
    IF i + 1 < length
    THEN /\ w_pc' = "claim_data"
         /\ w_game' = g
         /\ w_i' = i + 1
         /\ mutex' = mutex
    ELSE IF g + 1 < ngames
    THEN /\ w_pc' = "get_storage_at"
         /\ w_game' = g + 1
         /\ w_i' = 0
         /\ mutex' = mutex
    ELSE /\ w_pc' = "sleep"
         /\ w_game' = 0
         /\ w_i' = 0
         /\ mutex' = "free"

\* A variant of WLock that goes to sleep with the guard when it finds no
\* game.
WLock_sleeps_with_guard ==
    /\ w_pc = "lock"
    /\ mutex = "free"
    /\ IF Len(games) > 0
       THEN /\ w_pc' = "get_storage_at"
            /\ mutex' = "watcher"
       ELSE /\ w_pc' = "sleep"
            /\ mutex' = "watcher"
    /\ w_game' = 0
    /\ w_i' = 0
    /\ UNCHANGED <<games, chain_claims, factoryVars, w_length, w_tx, w_log>>
    /\ UNCHANGED <<mainVars, positionVars, respondVars, queueVars, oracleVars>>

\* drivers.rs:187-188: self.state.lock().await, then the first game if any.
WLock ==
    /\ w_pc = "lock"
    /\ mutex = "free"
    /\ IF Len(games) > 0
       THEN /\ w_pc' = "get_storage_at"
            /\ mutex' = "watcher"
       ELSE /\ w_pc' = "sleep"
            /\ mutex' = "free"
    /\ w_game' = 0
    /\ w_i' = 0
    /\ UNCHANGED <<games, chain_claims, factoryVars, w_length, w_tx, w_log>>
    /\ UNCHANGED <<mainVars, positionVars, respondVars, queueVars, oracleVars>>

\* A variant of WCompareLength that ends the pass at a game with nothing
\* new.
WCompareLength_ends_pass(reply) ==
    LET game == games[w_game + 1]
    IN  IF ~reply.ok
        THEN /\ w_pc' = "failed"
             /\ mutex' = "free"
             /\ UNCHANGED <<w_game, w_i, w_length, w_log>>
        ELSE /\ w_length' = reply.val
             /\ IF reply.val > Len(game.state)
                THEN /\ w_pc' = "claim_data"
                     /\ w_i' = Len(game.state)
                     /\ w_log' = Append(w_log, <<"length", game.address, reply.val>>)
                     /\ UNCHANGED <<w_game, mutex>>
                ELSE /\ WatcherAdvance(Len(games) - 1, reply.val, reply.val, Len(games))
                     /\ UNCHANGED w_log

\* drivers.rs:199-287: what the watcher does with the reply to
\* get_storage_at.  A failed read returns the error from start_loop, which
\* drops the guard; a length above the local one starts the fetches at the
\* local length; an equal or a smaller length only logs, and the loop goes
\* on to the next game.
WCompareLength(reply) ==
    LET game == games[w_game + 1]
    IN  IF ~reply.ok
        THEN /\ w_pc' = "failed"
             /\ mutex' = "free"
             /\ UNCHANGED <<w_game, w_i, w_length, w_log>>
        ELSE /\ w_length' = reply.val
             /\ IF reply.val > Len(game.state)
                THEN /\ w_pc' = "claim_data"
                     /\ w_i' = Len(game.state)
                     /\ w_log' = Append(w_log, <<"length", game.address, reply.val>>)
                     /\ UNCHANGED <<w_game, mutex>>
                ELSE /\ WatcherAdvance(w_game, reply.val, reply.val, Len(games))
                     /\ UNCHANGED w_log

\* drivers.rs:197-287: the length of the claim array read from storage slot
\* 1 and its comparison with the local length; the node answers with the
\* length the array has.
WGetStorageAt ==
    /\ w_pc = "get_storage_at"
    /\ \E reply \in {Err("rpc"), Ok(Len(chain_claims[games[w_game + 1].address]))} :
         WCompareLength(reply)
    /\ UNCHANGED <<games, chain_claims, factoryVars, w_tx>>
    /\ UNCHANGED <<mainVars, positionVars, respondVars, queueVars, oracleVars>>

\* drivers.rs:197-287 with a node that may be behind the head of the chain:
\* it answers with a length the array has had.
WGetStorageAtLagging ==
    /\ w_pc = "get_storage_at"
    /\ \E reply \in {Err("rpc")} \cup
                    {Ok(n) : n \in 0 .. Len(chain_claims[games[w_game + 1].address])} :
         WCompareLength(reply)
    /\ UNCHANGED <<games, chain_claims, factoryVars, w_tx>>
    /\ UNCHANGED <<mainVars, positionVars, respondVars, queueVars, oracleVars>>

\* A variant of push that puts the row in front of the rows held.
push_front(state, row) == <<row>> \o state

\* drivers.rs:220-229: game.state.push(ClaimData { .. }), Vec::push.
push(state, row) == Append(state, row)

\* drivers.rs:215-278: claimData(i) is fetched and pushed, respond(i) is
\* called and its result turned into a call.
WClaimData ==
    /\ w_pc = "claim_data"
    /\ LET game == games[w_game + 1]
       IN  \E reply \in {Err("rpc"), Ok(chain_claims[game.address][w_i + 1])} :
             IF ~reply.ok
             THEN /\ w_pc' = "failed"
                  /\ mutex' = "free"
                  /\ UNCHANGED <<games, w_game, w_i, w_tx, w_log>>
             ELSE \E state \in {push(game.state, reply.val)} :
                  \E res \in {respond(state, game.trace, w_i, overflow_checks)} :
                  \E tx \in {response_tx(game.address, w_i, res)} :
                      /\ games' = [games EXCEPT ![w_game + 1].state = state]
                      /\ w_log' = w_log \o <<<<"claim_data", game.address, w_i>>,
                                             <<"respond", game.address, w_i>>>>
                      /\ w_tx' = tx
                      /\ IF IsPanic(res)
                         THEN /\ w_pc' = "panicked"
                              /\ mutex' = "free"
                              /\ UNCHANGED <<w_game, w_i>>
                         ELSE IF tx # <<>>
                         THEN /\ w_pc' = "send"
                              /\ UNCHANGED <<w_game, w_i, mutex>>
                         ELSE WatcherAdvance(w_game, w_i, w_length, Len(games))
    /\ UNCHANGED <<chain_claims, factoryVars, w_length>>
    /\ UNCHANGED <<mainVars, positionVars, respondVars, oracleVars>>
    /\ UNCHANGED queueVars

\* drivers.rs:246 and 268: self.config.tx_sender.send(tx).await?
WSend ==
    /\ w_pc = "send"
    /\ Send("fault_game_watcher", w_tx[1])
    /\ w_tx' = <<>>
    /\ WatcherAdvance(w_game, w_i, w_length, Len(games))
    /\ UNCHANGED <<games, chain_claims, factoryVars, w_length, w_log>>
    /\ UNCHANGED <<disp_pc, disp_tx, dequeued, processed, mempool>>
    /\ UNCHANGED <<mainVars, positionVars, respondVars, oracleVars>>

\* drivers.rs:295: tokio::time::sleep(5 minutes) ends and the loop repeats.
WWake ==
    /\ w_pc = "sleep"
    /\ w_pc' = "lock"
    /\ UNCHANGED <<games, mutex, chain_claims, factoryVars, w_game, w_i, w_length, w_tx, w_log>>
    /\ UNCHANGED <<mainVars, positionVars, respondVars, queueVars, oracleVars>>

\* The claim arrays in which every claim counters the one before it, down
\* to a claim at depth `d`.
RECURSIVE ChainsTo(_)
ChainsTo(d) ==
    IF d = 0 THEN {<<row>> : row \in NextRows(<<>>)}
    ELSE UNION { {Append(rows, row) :
                    row \in {r \in NextRows(rows) : r.parent_index = Len(rows) - 1}}
                 : rows \in ChainsTo(d - 1) }

\* The games that hold one claim per depth and end in a leaf claim.
LeafChains == ChainsTo(MAX_DEPTH)

(***************************************************************************)
(* main, op-challenger.rs:70-134: start_driver_stack! spawns the drivers'  *)
(* loops on a JoinSet and joins them.                                      *)
(***************************************************************************)
\* The drivers main spawns, op-challenger.rs:126-131.
DriverStack == {"TxDispatchDriver", "DisputeFactoryDriver"}

\* What a driver's start_loop has returned, or that it has not returned.
\* DisputeFactoryDriver returns the error of the `?` that failed
\* (drivers.rs:122-131 and 144) or Ok(()) when the log stream ends
\* (drivers.rs:118, 174).  TxDispatchDriver returns when the channel is
\* closed (drivers.rs:62, 96), which needs every sender dropped, and the
\* DriverConfig the driver itself holds keeps one: it does not return.
StillRunning == Err("running")

start_loop(driver) ==
    IF driver = "DisputeFactoryDriver"
    THEN CASE df_pc = "done" -> Ok(<<>>)
           [] df_pc = "failed" ->
                IF ~game_type_u8(df_log).ok THEN game_type_u8(df_log)
                ELSE IF ~game_addr(df_log).ok THEN game_addr(df_log)
                ELSE Err("rpc")
           [] OTHER -> StillRunning
    ELSE StillRunning

MainIdle ==
    /\ main_pc = "join_next"
    /\ main_result = Err("unset")
    /\ join_set = DriverStack

\* No Position function has been called.
NoCall == <<"none", FALSE>>

PositionIdle ==
    /\ pos_in = <<>>
    /\ pos_call = NoCall
    /\ pos_out = 0

\* The process runs until main returns.
Running == main_pc = "join_next"

\* A variant of MainJoinNext that logs a failed loop and keeps waiting.
MainJoinNext_keeps_waiting ==
    /\ main_pc = "join_next"
    /\ join_set # {}
    /\ \E driver \in join_set :
         /\ start_loop(driver) # StillRunning
         /\ join_set' = join_set \ {driver}
    /\ UNCHANGED <<main_pc, main_result>>
    /\ UNCHANGED <<respondVars, queueVars, oracleVars, gamesVars, positionVars>>

\* op-challenger.rs:118-120: `while let Some(result) = set.join_next().await
\* { result??; }` takes the tasks in the order they finish; the first
\* error is main's return value, and an empty set ends the loop, after
\* which main returns Ok(()) (line 133).
MainJoinNext ==
    /\ main_pc = "join_next"
    /\ IF join_set = {}
       THEN /\ main_pc' = "returned"
            /\ main_result' = Ok(<<>>)
            /\ UNCHANGED join_set
       ELSE \E driver \in join_set :
              \E result \in {start_loop(driver)} :
                /\ result # StillRunning
                /\ join_set' = join_set \ {driver}
                /\ IF result.ok
                   THEN UNCHANGED <<main_pc, main_result>>
                   ELSE /\ main_pc' = "returned"
                        /\ main_result' = result
    /\ UNCHANGED <<respondVars, queueVars, oracleVars, gamesVars, positionVars>>

\* drivers.rs:118 and 174: the log stream ends and the loop returns Ok(()).
DfStreamEnd ==
    /\ df_pc = "idle"
    /\ df_pc' = "done"
    /\ UNCHANGED <<games, mutex, chain_claims, df_log, df_handled, df_game_addr, df_created_at, watcherVars>>
    /\ UNCHANGED <<mainVars, positionVars, respondVars, queueVars, oracleVars>>

(***************************************************************************)
(* SpecRespond: a game grows as the contract allows and respond is applied *)
(* to any of its claims.  It starts from the empty claim array or from a   *)
(* game that has been played straight down to a leaf.                      *)
(***************************************************************************)
NotCalled == Err("not called")

RespondIdle ==
    /\ g_state = <<>>
    /\ g_trace = TRACE
    /\ r_parent_index = -1
    /\ r_result = NotCalled

InitRespond ==
    /\ g_state \in {<<>>} \cup LeafChains
    /\ g_trace = TRACE
    /\ r_parent_index = -1
    /\ r_result = NotCalled
    /\ overflow_checks \in BOOLEAN
    /\ QueueIdle
    /\ OracleIdle
    /\ GamesIdle
    /\ MainIdle
    /\ PositionIdle

\* The contract appends one claim to the game.
PostClaim ==
    /\ Len(g_state) < MaxClaims
    /\ \E row \in NextRows(g_state) : g_state' = Append(g_state, row)
    /\ r_parent_index' = -1
    /\ r_result' = NotCalled
    /\ UNCHANGED <<g_trace, overflow_checks, queueVars, oracleVars, gamesVars, mainVars, positionVars>>

\* A variant of Respond that marks the claim it moves against as countered.
Respond_marks_countered ==
    /\ g_state # <<>>
    /\ \E pi \in 0 .. Len(g_state) :
         /\ r_parent_index' = pi
         /\ r_result' = respond(g_state, g_trace, pi, overflow_checks)
         /\ g_state' = IF r_result'.ok /\ r_result'.val.kind = "Move"
                       THEN [g_state EXCEPT ![pi + 1].countered = TRUE]
                       ELSE g_state
    /\ UNCHANGED <<g_trace, overflow_checks, queueVars, oracleVars, gamesVars, mainVars, positionVars>>

\* game.respond(parent_index), for every index up to one past the last row.
Respond ==
    /\ g_state # <<>>
    /\ \E pi \in 0 .. Len(g_state) :
         /\ r_parent_index' = pi
         /\ r_result' = respond(g_state, g_trace, pi, overflow_checks)
    /\ UNCHANGED <<g_state, g_trace, overflow_checks, queueVars, oracleVars, gamesVars, mainVars, positionVars>>

NextRespond == PostClaim \/ Respond

SpecRespond == InitRespond /\ [][NextRespond]_vars

(***************************************************************************)
(* SpecRespondAny: respond applied to any AlphabetGame value, not only to  *)
(* the games the contract builds: the rows' parent_index may name no row   *)
(* and the trace may be shorter than the game tree is wide.  The rows'     *)
(* positions are positions of the tree of depth MAX_DEPTH, for which no    *)
(* subtraction underflows, so the build's overflow checks play no part.    *)
(***************************************************************************)
\* Largest number of rows of a game in SpecRespondAny.
MaxAnyRows == 2

\* The positions of the rows: the root, the attack on it and the defence
\* of that attack.
AnyPositions == {1, 2, 6}

\* The lengths of the traces: half, three quarters, whole.
AnyTraceLens == {8, 12, 16}

\* The parent_index values of the rows: the root's sentinel, the first row,
\* and an index past every row.
AnyParentIndexes == {U32_MAX, 0, MaxAnyRows}

AnyRows ==
    UNION {{ClaimData(pi, c, pos) : pi \in AnyParentIndexes, c \in PostedClaims(pos)}
           : pos \in AnyPositions}

RECURSIVE AnyStates(_)
AnyStates(n) ==
    IF n = 0 THEN {<<>>}
    ELSE AnyStates(n - 1) \cup
         {Append(rows, row) : rows \in {r \in AnyStates(n - 1) : Len(r) = n - 1},
                              row \in AnyRows}

InitRespondAny ==
    /\ g_state \in AnyStates(MaxAnyRows) \ {<<>>}
    /\ g_trace \in {SubSeq(TRACE, 1, n) : n \in AnyTraceLens}
    /\ r_parent_index = -1
    /\ r_result = NotCalled
    /\ overflow_checks = FALSE
    /\ QueueIdle
    /\ OracleIdle
    /\ GamesIdle
    /\ MainIdle
    /\ PositionIdle

NextRespondAny == Respond

SpecRespondAny == InitRespondAny /\ [][NextRespondAny]_vars

(***************************************************************************)
(* SpecOracle: the OutputProposed handler, the mempool and the dispatcher. *)
(***************************************************************************)
InitOracle ==
    /\ RespondIdle
    /\ overflow_checks = FALSE
    /\ QueueIdle
    /\ OracleIdle
    /\ GamesIdle
    /\ MainIdle
    /\ PositionIdle

NextOracle ==
    \/ OpRecv \/ OpCompare \/ OpTxpool \/ OpSend
    \/ MempoolAdd \/ MempoolInclude
    \/ DispRecv \/ DispEstimateGas \/ DispGasPrice \/ DispSend

SpecOracle == InitOracle /\ [][NextOracle]_vars

(***************************************************************************)
(* SpecGames: the factory subscriber, the fault-game watcher and the games *)
(* on chain.                                                               *)
(***************************************************************************)
InitGames ==
    /\ RespondIdle
    /\ overflow_checks = FALSE
    /\ QueueIdle
    /\ OracleIdle
    /\ GamesIdle
    /\ MainIdle
    /\ PositionIdle

NextGames ==
    \/ DfRecv \/ DfCreatedAt \/ DfLock \/ DfPush
    \/ ChainPost
    \/ WLock \/ WGetStorageAt \/ WClaimData \/ WSend \/ WWake

SpecGames == InitGames /\ [][NextGames]_vars

(***************************************************************************)
(* SpecDeepGame: the watcher on one fault game whose contract allows one   *)
(* level more than MAX_DEPTH.  The game has been played by attacks down to *)
(* the agent's leaf depth and the leaf claim has been attacked once more;  *)
(* the watcher starts with the game registered and no row fetched.         *)
(***************************************************************************)
\* Number of claims participants post in SpecDeepGame after the claim
\* below the agent's leaf depth.
MaxLatePosts == 1

\* The game SpecDeepGame watches.
DeepGame == "game1"

\* The log by which the factory announced the game.
DeepGameLog ==
    [topics |-> <<DISPUTE_GAME_CREATED_TOPIC0, AddressTopic(DeepGame),
                  GameTypeTopic(0, GameType_Fault), ROOT_AA>>,
     self_is_creator |-> FALSE,
     root_claim_differs |-> FALSE]

\* The claim arrays played by attacks only down to depth MAX_DEPTH, and
\* then the attack on the leaf claim, at depth MAX_DEPTH + 1.
DeepChains ==
    {Append(rows, ClaimData(MAX_DEPTH, H256_default,
                            make_move(rows[MAX_DEPTH + 1].position, TRUE)))
       : rows \in {r \in LeafChains :
                     \A k \in 1 .. Len(r) : r[k].position = Pow2(k - 1)}}

InitDeepGame ==
    /\ RespondIdle
    /\ overflow_checks = FALSE
    /\ QueueIdle
    /\ OracleIdle
    /\ MainIdle
    /\ PositionIdle
    /\ games = <<new_game(DeepGame, CREATED_AT)>>
    /\ mutex = "free"
    /\ chain_claims \in {[a \in GameAddrs |-> IF a = DeepGame THEN rows ELSE <<>>]
                            : rows \in DeepChains}
    /\ df_pc = "idle"
    /\ df_log = DeepGameLog
    /\ df_handled = 1
    /\ df_game_addr = DeepGame
    /\ df_created_at = CREATED_AT
    /\ w_pc = "lock"
    /\ w_game = 0
    /\ w_i = 0
    /\ w_length = 0
    /\ w_tx = <<>>
    /\ w_log = <<>>

\* A participant posts a claim within the agent's tree in the watched game.
LatePost ==
    /\ Len(chain_claims[DeepGame]) < MAX_DEPTH + 2 + MaxLatePosts
    /\ \E row \in NextRows(chain_claims[DeepGame]) :
         chain_claims' = [chain_claims EXCEPT ![DeepGame] = Append(@, row)]
    /\ UNCHANGED <<games, mutex, factoryVars, watcherVars>>
    /\ UNCHANGED <<mainVars, positionVars, respondVars, queueVars, oracleVars>>

NextDeepGame ==
    \/ LatePost
    \/ WLock \/ WGetStorageAt \/ WClaimData \/ WSend \/ WWake

SpecDeepGame == InitDeepGame /\ [][NextDeepGame]_vars

(***************************************************************************)
(* SpecPosition: the functions of the Position trait applied to the        *)
(* positions 1 .. MaxPosition of a tree of any depth from the position's   *)
(* own up to MaxTreeDepth.                                                 *)
(***************************************************************************)
\* Largest position the functions are applied to.
MaxPosition == 31

\* Largest max_depth passed to right_index and trace_index.
MaxTreeDepth == 5

InitPosition ==
    /\ RespondIdle
    /\ overflow_checks = FALSE
    /\ QueueIdle
    /\ OracleIdle
    /\ GamesIdle
    /\ MainIdle
    /\ pos_in \in {x \in [position : 1 .. MaxPosition, max_depth : 0 .. MaxTreeDepth]
                     : x.max_depth >= depth(x.position)}
    /\ pos_call = NoCall
    /\ pos_out = 0

PositionFrame ==
    /\ UNCHANGED pos_in
    /\ UNCHANGED <<respondVars, queueVars, oracleVars, gamesVars, mainVars>>

CallDepth ==
    /\ pos_call' = <<"depth", FALSE>>
    /\ pos_out' = depth(pos_in.position)
    /\ PositionFrame

CallIndexAtDepth ==
    /\ pos_call' = <<"index_at_depth", FALSE>>
    /\ pos_out' = index_at_depth(pos_in.position)
    /\ PositionFrame

CallLeft ==
    /\ pos_call' = <<"left", FALSE>>
    /\ pos_out' = left(pos_in.position)
    /\ PositionFrame

CallRight ==
    /\ pos_call' = <<"right", FALSE>>
    /\ pos_out' = right(pos_in.position)
    /\ PositionFrame

CallParent ==
    /\ pos_call' = <<"parent", FALSE>>
    /\ pos_out' = parent(pos_in.position)
    /\ PositionFrame

CallRightIndex ==
    /\ pos_call' = <<"right_index", FALSE>>
    /\ pos_out' = right_index(pos_in.position, pos_in.max_depth)
    /\ PositionFrame

CallTraceIndex ==
    /\ pos_call' = <<"trace_index", FALSE>>
    /\ pos_out' = trace_index(pos_in.position, pos_in.max_depth)
    /\ PositionFrame

CallMakeMove ==
    /\ \E is_attack \in BOOLEAN :
         /\ pos_call' = <<"make_move", is_attack>>
         /\ pos_out' = make_move(pos_in.position, is_attack)
    /\ PositionFrame

NextPosition ==
    \/ CallDepth \/ CallIndexAtDepth \/ CallLeft \/ CallRight \/ CallParent
    \/ CallRightIndex \/ CallTraceIndex \/ CallMakeMove

SpecPosition == InitPosition /\ [][NextPosition]_vars

(***************************************************************************)
(* SpecGindex: compute_gindex applied to every depth up to the width of    *)
(* index_at_depth's result and to indexes below 2^depth, and depth and     *)
(* index_at_depth applied to what it returns.                              *)
(***************************************************************************)
\* Indexes below 2^d as u64 values: zero, one, 2^(d-1), 2^d - 1, and the
\* bits of even weight below d.
IndexSamples(d) ==
    { [k \in 1 .. U64_BITS |-> 0],
      [k \in 1 .. U64_BITS |-> IF k = 1 /\ d >= 1 THEN 1 ELSE 0],
      [k \in 1 .. U64_BITS |-> IF k = d THEN 1 ELSE 0],
      [k \in 1 .. U64_BITS |-> IF k <= d THEN 1 ELSE 0],
      [k \in 1 .. U64_BITS |-> IF k <= d /\ k % 2 = 1 THEN 1 ELSE 0] }

InitGindex ==
    /\ RespondIdle
    /\ overflow_checks = FALSE
    /\ QueueIdle
    /\ OracleIdle
    /\ GamesIdle
    /\ MainIdle
    /\ pos_in \in UNION {{[depth |-> d, index_at_depth |-> i] : i \in IndexSamples(d)}
                           : d \in 0 .. U64_BITS}
    /\ pos_call = NoCall
    /\ pos_out = 0

CallComputeGindex ==
    /\ pos_call' = <<"compute_gindex", FALSE>>
    /\ pos_out' = compute_gindex(pos_in.depth, pos_in.index_at_depth)
    /\ PositionFrame

CallGindexDepth ==
    /\ pos_call' = <<"depth", FALSE>>
    /\ pos_out' = depth_u128(compute_gindex(pos_in.depth, pos_in.index_at_depth))
    /\ PositionFrame

CallGindexIndexAtDepth ==
    /\ pos_call' = <<"index_at_depth", FALSE>>
    /\ pos_out' = index_at_depth_u128(compute_gindex(pos_in.depth,
                                                     pos_in.index_at_depth))
    /\ PositionFrame

NextGindex == CallComputeGindex \/ CallGindexDepth \/ CallGindexIndexAtDepth

SpecGindex == InitGindex /\ [][NextGindex]_vars

\* position.rs:78-327, position_correctness_static: for p = 1 .. 31 in
\* order, what the test asserts of p.depth(), p.index_at_depth(),
\* p.right_index(4) and p.right_index(4).index_at_depth().
PositionTable ==
    <<
      <<0, 0, 31, 15>>,
      <<1, 0, 23, 7>>,
      <<1, 1, 31, 15>>,
      <<2, 0, 19, 3>>,
      <<2, 1, 23, 7>>,
      <<2, 2, 27, 11>>,
      <<2, 3, 31, 15>>,
      <<3, 0, 17, 1>>,
      <<3, 1, 19, 3>>,
      <<3, 2, 21, 5>>,
      <<3, 3, 23, 7>>,
      <<3, 4, 25, 9>>,
      <<3, 5, 27, 11>>,
      <<3, 6, 29, 13>>,
      <<3, 7, 31, 15>>,
      <<4, 0, 16, 0>>,
      <<4, 1, 17, 1>>,
      <<4, 2, 18, 2>>,
      <<4, 3, 19, 3>>,
      <<4, 4, 20, 4>>,
      <<4, 5, 21, 5>>,
      <<4, 6, 22, 6>>,
      <<4, 7, 23, 7>>,
      <<4, 8, 24, 8>>,
      <<4, 9, 25, 9>>,
      <<4, 10, 26, 10>>,
      <<4, 11, 27, 11>>,
      <<4, 12, 28, 12>>,
      <<4, 13, 29, 13>>,
      <<4, 14, 30, 14>>,
      <<4, 15, 31, 15>>
    >>

(***************************************************************************)
(* SpecStack: main, the two drivers it spawns, and output_proposed called  *)
(* on OutputProposed logs.  No driver of drivers.rs calls output_proposed  *)
(* (handlers.rs:15), so its calls are no task of the JoinSet.  The tasks   *)
(* run until main returns.                                                 *)
(***************************************************************************)
\* Number of logs the two subscriptions deliver in SpecStack, together.
MaxStackLogs == 2

LogsDelivered == df_handled + op_handled

InitStack ==
    /\ RespondIdle
    /\ overflow_checks = FALSE
    /\ QueueIdle
    /\ OracleIdle
    /\ GamesIdle
    /\ MainIdle
    /\ PositionIdle

StackDfRecv == Running /\ LogsDelivered < MaxStackLogs /\ DfRecv

StackDfCreatedAt == Running /\ DfCreatedAt

StackDfLock == Running /\ DfLock

StackDfPush == Running /\ DfPush

StackDfStreamEnd == Running /\ DfStreamEnd

StackOpRecv == Running /\ LogsDelivered < MaxStackLogs /\ OpRecv

StackOpCompare == Running /\ OpCompare

StackOpTxpool == Running /\ OpTxpool

StackOpSend == Running /\ OpSend

StackDispRecv == Running /\ DispRecv

StackDispEstimateGas == Running /\ DispEstimateGas

StackDispGasPrice == Running /\ DispGasPrice

StackDispSend == Running /\ DispSend

NextStack ==
    \/ MainJoinNext
    \/ StackDfRecv \/ StackDfCreatedAt \/ StackDfLock \/ StackDfPush \/ StackDfStreamEnd
    \/ StackOpRecv \/ StackOpCompare \/ StackOpTxpool \/ StackOpSend
    \/ StackDispRecv \/ StackDispEstimateGas \/ StackDispGasPrice \/ StackDispSend

SpecStack == InitStack /\ [][NextStack]_vars

(***************************************************************************)
(* Claims about respond (SpecRespond).                                     *)
(***************************************************************************)
\* respond was called on an index of the state.
Called == r_parent_index >= 0 /\ r_parent_index < Len(g_state)

\* P, the claim respond was asked about, and G, its parent.
P == g_state[r_parent_index + 1]

PIsRoot == P.parent_index = U32_MAX

G == g_state[P.parent_index + 1]

AgreeWithP == OurClaim(P.position) = P.claim

AgreeWithG == OurClaim(G.position) = G.claim

\* C1 (as stated): whenever our claim at the parent's position equals the
\* parent's claim, respond returns DoNothing: for a root parent, when we
\* agree with the grandparent and when we disagree with it.
C1_AgreeAlwaysDoNothing ==
    (Called /\ AgreeWithP) => r_result = Ok(DoNothing)

\* C1 (amended): when we agree with the parent, respond returns DoNothing
\* if the parent is the root or we disagree with the grandparent; if we
\* also agree with the grandparent it returns a defence instead: a Move
\* with is_attack = false, counter claim claim_at(make_move(P.position,
\* false)) and no secondary when that position is no deeper than
\* MAX_DEPTH, and otherwise a Step with is_attack = false or an error.
C1_AgreeDefendsUnlessRootOrGrandparentContested ==
    (Called /\ AgreeWithP) =>
        IF PIsRoot \/ ~AgreeWithG
        THEN r_result = Ok(DoNothing)
        ELSE IF depth(make_move(P.position, FALSE)) <= MAX_DEPTH
        THEN r_result = Ok(Move(FALSE, OurClaim(make_move(P.position, FALSE)), None))
        ELSE \/ ~r_result.ok
             \/ /\ r_result.val.kind = "Step"
                /\ r_result.val.is_attack = FALSE
                /\ r_result.val.parent_index = r_parent_index

\* C1 witness: we agree with a non-root parent and with its parent, and
\* respond returned a defence move.
C1_Witness ==
    /\ Called /\ AgreeWithP /\ ~PIsRoot /\ AgreeWithG
    /\ r_result.ok /\ r_result.val.kind = "Move" /\ ~r_result.val.is_attack

\* C2: when our claim at the parent's position differs from the parent's
\* claim and the attack position make_move(P.position, true) is no deeper
\* than MAX_DEPTH, respond returns a Move with is_attack = true whose
\* counter claim is our claim at that attack position; against the root
\* the secondary is None.
C2_DisagreeAttacksParent ==
    (Called /\ ~AgreeWithP /\ depth(make_move(P.position, TRUE)) <= MAX_DEPTH) =>
        /\ r_result.ok
        /\ r_result.val.kind = "Move"
        /\ r_result.val.is_attack = TRUE
        /\ r_result.val.claim = OurClaim(make_move(P.position, TRUE))
        /\ (PIsRoot => r_result.val.secondary = None)

\* C2 witness: the root-only game of scenario S5, answered with
\* Move(true, claim_at(2), None).
C2_Witness ==
    /\ Len(g_state) = 1 /\ r_parent_index = 0 /\ ~AgreeWithP
    /\ r_result = Ok(Move(TRUE, OurClaim(2), None))

\* respond returned a Move.
IsMove == r_result.ok /\ r_result.val.kind = "Move"

\* C15: a Move that respond returns carries a secondary exactly when we
\* disagree with the parent, the parent is not the root and our claim at
\* the grandparent's position differs from the grandparent's; the
\* secondary is then the pair of the grandparent's index in the state
\* (the parent's parent_index) and our claim at the attack position on the
\* grandparent, make_move(G.position, true); otherwise it is None.
C15_SecondaryExactlyOnDoubleDisagreement ==
    (Called /\ IsMove) =>
        IF ~AgreeWithP /\ ~PIsRoot /\ ~AgreeWithG
        THEN r_result.val.secondary =
                 Some(<<P.parent_index, OurClaim(make_move(G.position, TRUE))>>)
        ELSE r_result.val.secondary = None

\* C15 witness: we disagree with a non-root parent and with its parent and
\* respond returned a Move that attacks both.
C15_Witness ==
    /\ Called /\ IsMove /\ ~AgreeWithP /\ ~PIsRoot /\ ~AgreeWithG
    /\ r_result.val.secondary # None
    /\ r_result.val.secondary[1][1] = P.parent_index
    /\ P.parent_index > 0

\* C16: when our claim at the parent's position differs from the parent's
\* claim and the attack position make_move(P.position, true) is deeper
\* than MAX_DEPTH, respond returns a Step, not a Move: its parent_index is
\* the index respond was called with, its is_attack is true and its proof
\* is empty.
C16_DisagreeAtLeafSteps ==
    (Called /\ ~AgreeWithP /\ depth(make_move(P.position, TRUE)) > MAX_DEPTH) =>
        /\ r_result.ok
        /\ r_result.val.kind = "Step"
        /\ r_result.val.parent_index = r_parent_index
        /\ r_result.val.is_attack = TRUE
        /\ r_result.val.proof = Bytes_default

\* C16 witness: a leaf claim right of the first leaf that we disagree
\* with, answered with an attack step whose prestate an ancestor holds.
C16_Witness ==
    /\ Called /\ ~AgreeWithP
    /\ depth(P.position) = MAX_DEPTH /\ index_at_depth(P.position) > 0
    /\ r_result.ok /\ r_result.val.kind = "Step"
    /\ r_result.val.is_attack
    /\ r_result.val.state_index # 0
    /\ r_result.val.state_data # Bytes_default

TreePositions == 1 .. (Pow2(MAX_DEPTH + 1) - 1)

IsIndex(i) == i >= 0 /\ i < Len(g_state)

\* The trace is shorter than trace_index(pos, MAX_DEPTH) + 1.
TraceShortFor(pos) == trace_index(pos, MAX_DEPTH) >= Len(g_trace)

\* Our claim at `pos` by the game's own trace.
ClaimIn(pos) == claim_at(g_trace, pos, overflow_checks)

\* respond returned one of AlphabetGame's two errors.
ReturnedError ==
    ~r_result.ok /\ r_result.err \in {"Invalid claim index", "Invalid trace index"}

\* C18: respond returns an error and no Response when parent_index is no
\* index of the state; when the parent is not the root and its
\* parent_index is no index of the state; and when the trace is shorter
\* than trace_index(position, MAX_DEPTH) + 1 for the parent's position,
\* for the grandparent's position, or for the position of the move it is
\* about to return.  For every position of the tree, claim_at fails, with
\* the invalid-trace-index error, exactly when trace_index(position,
\* MAX_DEPTH) >= length(trace) (evaluated on each game before respond is
\* called on it).
C18_InvalidIndexOrShortTraceIsError ==
    /\ (r_parent_index >= 0 /\ ~IsIndex(r_parent_index)) =>
          r_result = Err("Invalid claim index")
    /\ (r_parent_index >= 0 /\ IsIndex(r_parent_index)) =>
          /\ (~PIsRoot /\ ~IsIndex(P.parent_index)) => ReturnedError
          /\ TraceShortFor(P.position) => r_result = Err("Invalid trace index")
          /\ (~PIsRoot /\ IsIndex(P.parent_index) /\ TraceShortFor(G.position))
                => ReturnedError
          /\ (/\ ~TraceShortFor(P.position)
              /\ PIsRoot \/ (IsIndex(P.parent_index) /\ ~TraceShortFor(G.position))) =>
                \E agree \in {ClaimIn(P.position).val = P.claim} :
                \E mp \in {make_move(P.position, ~agree)} :
                   (/\ ~agree \/ (~PIsRoot /\ ClaimIn(G.position).val = G.claim)
                    /\ depth(mp) <= MAX_DEPTH
                    /\ TraceShortFor(mp))
                      => r_result = Err("Invalid trace index")
    /\ (r_result = NotCalled) =>
          \A pos \in TreePositions :
             \E c \in {ClaimIn(pos)} :
                /\ c.ok <=> ~TraceShortFor(pos)
                /\ ~c.ok => c = Err("Invalid trace index")

\* C18 witness: the trace covers the position of a parent that is not the
\* root and whose parent_index is past the end of the state, and respond
\* returned the invalid-claim-index error.
C18_Witness ==
    /\ r_parent_index >= 0 /\ IsIndex(r_parent_index)
    /\ ~PIsRoot /\ ~IsIndex(P.parent_index)
    /\ ~TraceShortFor(P.position)
    /\ Len(g_trace) < Len(TRACE)
    /\ r_result = Err("Invalid claim index")

(***************************************************************************)
(* Claims about output_proposed and the dispatcher (SpecOracle).           *)
(***************************************************************************)
\* A pending create call for a Fault game on `root`, as the specification
\* defines a matching transaction: sent to the factory, selector
\* 0x3142e55e, bytes 4..36 the game type Fault, bytes 36..68 the root.
IsFaultCreateFor(tx, root) ==
    /\ tx.to = FACTORY
    /\ tx.sel = CREATE_SELECTOR
    /\ Len(tx.words) >= 2
    /\ tx.words[1] = Word(0, 0)
    /\ tx.words[2] = root

\* The handler compared the roots of the log in hand and they differ.
RootsDiffer ==
    /\ op_output_at_block.ok
    /\ op_output_at_block.val # proposed_root

\* C3 (as stated): the handler never has a create call to enqueue when the
\* pending transactions it read hold a create call to the factory for a
\* Fault game on the proposed root.
C3_NoCreateWhenFaultCreatePending ==
    (op_pc = "send") =>
        ~\E k \in 1 .. Len(op_pool.val) : IsFaultCreateFor(op_pool.val[k], proposed_root)

C5_RootClaimIsProposedRoot ==
    (op_pc = "send") => op_tx[1].words[2] = proposed_root

\* C6: when the proposed root equals the root the trusted node returned
\* for the event's block, the handler is finished, has enqueued nothing,
\* has built no call and has not read the pending transactions.
C6_MatchEnqueuesNothing ==
    (op_output_at_block.ok /\ op_output_at_block.val = proposed_root) =>
        /\ op_pc = "idle"
        /\ op_sent = <<>>
        /\ op_tx = <<>>
        /\ op_pool = Err("unset")
        /\ op_is_pending = "unset"

\* C6 witness: scenario S2, the trusted node returned the proposed root
\* 0xaa..aa and the handler has returned.
C6_Witness ==
    /\ op_handled > 0 /\ op_pc = "idle"
    /\ op_output_at_block = Ok(ROOT_AA)
    /\ proposed_root = ROOT_AA
    /\ op_sent = <<>>

\* C21: when the optimism_outputAtBlock request for the event has failed,
\* the handler has returned Ok: it has enqueued nothing, built no call and
\* not read the pending transactions, and the next OutputProposed log, if
\* the subscription delivers one, can be handled.
C21_TrustedNodeFailureIsSoft ==
    (~op_output_at_block.ok /\ op_output_at_block.err = "rpc") =>
        /\ op_pc = "idle"
        /\ op_matches = "error"
        /\ op_sent = <<>>
        /\ op_tx = <<>>
        /\ op_pool = Err("unset")
        /\ op_is_pending = "unset"
        /\ (op_handled < MaxOracleLogs) => ENABLED OpRecv

\* C21 witness: the request failed for the second log the handler was
\* given, after the first log had put a call on the queue.
C21_Witness ==
    /\ op_handled = 2 /\ op_pc = "idle"
    /\ op_output_at_block = Err("rpc")
    /\ Len(sent) = 1 /\ op_sent = <<>>

\* C10: the dispatcher receives the calls in the order they were sent and
\* has one call in hand at a time: the calls received are a prefix of the
\* calls sent, the queue holds the rest in sending order, and every call
\* received before the one in hand has been finished, in that same order.
C10_DispatcherFifo ==
    /\ Len(dequeued) <= Len(sent)
    /\ \A k \in 1 .. Len(dequeued) : dequeued[k] = sent[k].id
    /\ tx_queue = SubSeq(sent, Len(dequeued) + 1, Len(sent))
    /\ \A j, k \in 1 .. Len(sent) : (j < k) => sent[j].id < sent[k].id
    /\ (disp_pc = "recv") <=> (disp_tx = <<>>)
    /\ Len(disp_tx) <= 1
    /\ Len(processed) = Len(dequeued) - Len(disp_tx)
    /\ \A k \in 1 .. Len(processed) : processed[k].id = dequeued[k]
    /\ (disp_tx # <<>>) => disp_tx[1].id = dequeued[Len(dequeued)]

\* C10 witness: two calls were sent while the dispatcher was busy with
\* neither, and both have been submitted, in the order sent.
C10_Witness ==
    /\ Len(sent) = 2 /\ Len(processed) = 2
    /\ processed[1].id = sent[1].id /\ processed[2].id = sent[2].id
    /\ processed[1].outcome = "sent" /\ processed[2].outcome = "sent"

(***************************************************************************)
(* Claims about the factory subscriber and the watcher (SpecGames).        *)
(***************************************************************************)
\* The log in hand is a complete DisputeGameCreated log of the given type.
HandledType(log, game_type) ==
    /\ Len(log.topics) >= 3
    /\ GameType_try_from(log.topics[3].byte) = Ok(game_type)

\* C7 (as stated): the step that finishes the handling of a Fault game's
\* log makes games longer by one game whose address is the proxy of topic
\* 1 and whose state already holds the root claim of the game on chain.
C7_PushedGameHoldsRootClaim ==
    [][(df_pc = "push" /\ df_pc' = "idle") =>
          /\ games' = Append(games, games'[Len(games')])
          /\ games'[Len(games')].address = df_log.topics[2].addr
          /\ games'[Len(games')].state = <<chain_claims[df_log.topics[2].addr][1]>>]_vars

Bytes == 0 .. 255

\* C22: the step that takes a DisputeGameCreated log whose type byte (the
\* last byte of topic 2) is 1 or no game type leaves the games and the
\* queue as they were and leaves the subscriber ready for the next log;
\* a log whose type byte is 0 is handled as a Fault game whatever the
\* bytes of topic 2 above it are; and GameType::try_from accepts the bytes
\* 0, 1 and 2 and no other (of the log's byte at every log, of all 256
\* bytes at the first).
C22_ValidityAndUnknownIgnored ==
    [][(df_handled' = df_handled + 1 /\ Len(df_log'.topics) >= 3) =>
          /\ (df_log'.topics[3].byte \notin {GameType_Fault, GameType_OutputAttestation}) =>
                /\ df_pc' = "idle"
                /\ UNCHANGED <<games, tx_queue, sent, mutex>>
          /\ (df_log'.topics[3].byte = GameType_Fault) => df_pc' = "created_at"
          /\ (GameType_try_from(df_log'.topics[3].byte).ok
                 <=> df_log'.topics[3].byte \in {0, 1, 2})
          /\ (df_handled = 0) =>
                \A b \in Bytes :
                   IF b \in {0, 1, 2}
                   THEN GameType_try_from(b) = Ok(b)
                   ELSE ~GameType_try_from(b).ok]_vars

\* C22 witness: after a game was pushed, a log whose type byte is no game
\* type, under a topic whose upper bytes are not zero, has been handled.
C22_Witness ==
    /\ df_handled = 2 /\ df_pc = "idle"
    /\ Len(df_log.topics) >= 3
    /\ df_log.topics[3].byte = 3 /\ df_log.topics[3].high = 1
    /\ Len(games) = 1 /\ sent = <<>>

\* The number of claimData fetches for game `a` among the first k - 1
\* entries of the watcher's log.
FetchesBefore(k, a) ==
    Cardinality({m \in 1 .. (k - 1) :
                    w_log[m][1] = "claim_data" /\ w_log[m][2] = a})

\* The last entry of the watcher's log that records a length.
LastLength ==
    CHOOSE k \in 1 .. Len(w_log) :
        /\ w_log[k][1] = "length"
        /\ \A m \in (k + 1) .. Len(w_log) : w_log[m][1] # "length"

\* C9: each time the watcher reads a length L above the local length n of
\* a game, what it does next is claimData(n), respond(n), claimData(n + 1),
\* respond(n + 1), and so on up to L - 1, each index once and in order,
\* respond(i) coming right after row i is appended and before row i + 1 is
\* fetched; it does nothing else until that is done, the rows it fetched
\* are the state of the game, and it leaves the game early only by
\* failing.
C9_WatcherFetchesAndRespondsInOrder ==
    /\ \A k \in 1 .. Len(w_log) :
          IF w_log[k][1] = "length"
          THEN LET a == w_log[k][2]
                   L == w_log[k][3]
                   n == FetchesBefore(k, a)
               IN  /\ L > n
                   /\ L <= Len(chain_claims[a])
                   /\ \A j \in 0 .. (L - n - 1) :
                         /\ (k + 2 * j + 1 <= Len(w_log)) =>
                               w_log[k + 2 * j + 1] = <<"claim_data", a, n + j>>
                         /\ (k + 2 * j + 2 <= Len(w_log)) =>
                               w_log[k + 2 * j + 2] = <<"respond", a, n + j>>
                   /\ (k + 2 * (L - n) < Len(w_log)) =>
                         w_log[k + 2 * (L - n) + 1][1] = "length"
          ELSE k > 1
    /\ (w_log # <<>>) => w_log[Len(w_log)][1] # "claim_data"
    /\ \A g \in 1 .. Len(games) :
          /\ Len(games[g].state) = FetchesBefore(Len(w_log) + 1, games[g].address)
          /\ games[g].state =
                SubSeq(chain_claims[games[g].address], 1, Len(games[g].state))
    /\ (w_pc = "claim_data") =>
          /\ w_i = Len(games[w_game + 1].state)
          /\ w_i < w_length
    /\ (w_log # <<>> /\ w_pc \in {"sleep", "lock", "get_storage_at"}) =>
          LET k == LastLength
          IN  Len(w_log) = k + 2 * (w_log[k][3] - FetchesBefore(k, w_log[k][2]))

\* C9 witness: the watcher found two new rows in a game, fetched row 0,
\* responded to it, fetched row 1, responded to it, and finished the pass.
C9_Witness ==
    /\ w_pc = "sleep"
    /\ Len(w_log) >= 5
    /\ w_log[1][1] = "length" /\ w_log[1][3] = 2
    /\ w_log[2] = <<"claim_data", w_log[1][2], 0>>
    /\ w_log[3] = <<"respond", w_log[1][2], 0>>
    /\ w_log[4] = <<"claim_data", w_log[1][2], 1>>
    /\ w_log[5] = <<"respond", w_log[1][2], 1>>

(***************************************************************************)
(* More claims about the dispatcher (SpecOracle).                          *)
(***************************************************************************)
\* The entries of `processed` that record a call to send_transaction.
Submissions == SelectSeq(processed, LAMBDA e : e.outcome \in {"sent", "send_failed"})

\* C11: the dispatcher never retries.  Every call is received once and
\* finished once, with one outcome; a call whose gas estimation failed has
\* no submission and a call whose submission failed has that one
\* submission only; no call that was received is on the queue again, the
\* only calls ever sent to the queue are the handler's (at most one per
\* log), and the transactions the dispatcher has pending on L1 are no more
\* than its successful submissions.
C11_DispatcherNeverRetries ==
    /\ \A j, k \in 1 .. Len(dequeued) : (j # k) => dequeued[j] # dequeued[k]
    /\ \A j, k \in 1 .. Len(processed) : (j # k) => processed[j].id # processed[k].id
    /\ \A k \in 1 .. Len(processed) :
          (processed[k].outcome = "dropped") =>
              \A j \in 1 .. Len(Submissions) : Submissions[j].id # processed[k].id
    /\ \A k \in 1 .. Len(tx_queue) :
          \A j \in 1 .. Len(dequeued) : tx_queue[k].id # dequeued[j]
    /\ Len(sent) <= op_handled
    /\ \A k \in 1 .. Len(sent) : sent[k].producer = "output_proposed"
    /\ Len(SelectSeq(mempool, LAMBDA tx : tx.gas # 0)) <=
          Len(SelectSeq(processed, LAMBDA e : e.outcome = "sent"))

\* C11 witness: one call was dropped at gas estimation and another failed
\* at submission; the dispatcher is idle again and the queue is empty.
C11_Witness ==
    /\ Len(processed) = 2
    /\ {processed[1].outcome, processed[2].outcome} = {"dropped", "send_failed"}
    /\ tx_queue = <<>> /\ disp_pc = "recv"
    /\ \A k \in 1 .. Len(mempool) : mempool[k].gas = 0

(***************************************************************************)
(* Claims about the state mutex (SpecGames).                               *)
(***************************************************************************)
\* C12 (as stated): no task is suspended on I/O other than a queue send
\* while it holds the state mutex: the watcher holds it neither at its
\* storage read nor at a claimData call, and the factory subscriber does
\* not hold it at its contract view.
C12_NoIoWhileHoldingMutex ==
    /\ (mutex = "watcher") => w_pc \notin {"get_storage_at", "claim_data"}
    /\ (mutex = "factory") => df_pc # "created_at"

\* C12 (amended): the factory subscriber holds the mutex only for the push,
\* which awaits nothing: its contract view createdAt is awaited before the
\* mutex is taken.  The watcher holds the mutex through its whole pass,
\* that is exactly while it awaits a storage read, a claimData call or a
\* queue send, and holds it neither asleep nor after the pass has failed.
C12_OnlyWatcherAwaitsIoUnderMutex ==
    /\ (mutex = "factory") <=> (df_pc = "push")
    /\ (mutex = "watcher") <=> (w_pc \in {"get_storage_at", "claim_data", "send"})
    /\ mutex \in {"free", "factory", "watcher"}

\* C12 witness: the watcher is suspended at a claimData call with the
\* mutex in hand while the factory subscriber, its contract view done,
\* waits for the mutex.
C12_Witness ==
    /\ mutex = "watcher" /\ w_pc = "claim_data"
    /\ df_pc = "lock"

\* The watcher is inside a pass.
InPass == w_pc \in {"get_storage_at", "claim_data", "send"}

\* C13: the games registry changes only in a step of the task that holds
\* the mutex, and one task holds it at a time: the factory subscriber's
\* step appends one whole game while the watcher is outside a pass and
\* leaves the watcher's position alone; the watcher's step changes the
\* state of the game it is at and no other; from one step of a pass to
\* the next the registry keeps its length and its games their addresses;
\* and every game in the registry is complete.
C13_GamesGuardedByMutex ==
    [][/\ (games' # games) => mutex \in {"factory", "watcher"}
       /\ (games' # games /\ mutex = "factory") =>
             /\ df_pc = "push" /\ ~InPass
             /\ games' = Append(games, games'[Len(games')])
             /\ UNCHANGED watcherVars
       /\ (games' # games /\ mutex = "watcher") =>
             /\ w_pc = "claim_data" /\ df_pc # "push"
             /\ Len(games') = Len(games)
             /\ \A g \in 1 .. Len(games) :
                   (g # w_game + 1) => games'[g] = games[g]
       /\ (InPass /\ InPass') =>
             /\ Len(games') = Len(games)
             /\ \A g \in 1 .. Len(games) : games'[g].address = games[g].address
       /\ ~(df_pc' = "push" /\ InPass')
       /\ \A g \in 1 .. Len(games') :
             /\ games'[g].address \in GameAddrs
             /\ games'[g].created_at = CREATED_AT
             /\ games'[g].trace = TRACE]_vars

\* C13 witness: the factory subscriber has pushed two games, the watcher
\* has fetched claims of both, and the mutex is free.
C13_Witness ==
    /\ Len(games) = 2
    /\ games[1].state # <<>> /\ games[2].state # <<>>
    /\ mutex = "free"

\* C19: a failed storage read or claimData fetch ends the watcher's pass
\* and not its loop: the watcher is never left with start_loop returned,
\* and once the pass is over the mutex is not the watcher's.
C19_RpcFailureAbortsOnlyThePass ==
    /\ w_pc # "failed"
    /\ (w_pc \in {"lock", "sleep"}) => mutex # "watcher"

(***************************************************************************)
(* Claims about main and the driver stack (SpecStack).                     *)
(***************************************************************************)
\* The spawned loops that have returned an error and are not yet joined.
FailedLoops ==
    {d \in join_set : start_loop(d) # StillRunning /\ ~start_loop(d).ok}

\* C14: when a spawned loop has returned an error, main's next step joins
\* a finished loop, and the step that joins a loop that returned an error
\* makes main return that same error (main joins only finished loops, and
\* a loop that returned Ok leaves it waiting); the loops still in the
\* JoinSet are joined no more, and nothing runs after main has returned.
\* Main returns an error only of a loop it joined.
C14_MainExitsWithLoopError ==
    [][/\ main_pc = "join_next"
       /\ (FailedLoops # {}) => ENABLED MainJoinNext
       /\ \A d \in DriverStack :
            (d \in join_set /\ d \notin join_set') =>
               /\ start_loop(d) # StillRunning
               /\ join_set' = join_set \ {d}
               /\ IF start_loop(d).ok
                  THEN main_pc' = "join_next" /\ main_result' = main_result
                  ELSE main_pc' = "returned" /\ main_result' = start_loop(d)
       /\ (main_pc' = "returned") =>
             \E d \in DriverStack : d \in join_set /\ d \notin join_set'
       /\ (join_set' = join_set) => UNCHANGED <<main_pc, main_result>>]_vars

\* C14 witness: the factory subscriber's loop returned the missing-topic
\* error and main has returned it while the dispatcher, unjoined, had a
\* call in hand.
C14_Witness ==
    /\ main_pc = "returned"
    /\ main_result = Err("gameType field not present")
    /\ join_set = {"TxDispatchDriver"}
    /\ disp_pc = "send_transaction"

CallIndex(tx) == IF tx.sel = "step" THEN tx.words[2] ELSE tx.words[1]

\* C23: in the step in which the watcher appends row i of a game and
\* respond(i) returns an error, the row appended is the chain's row i,
\* nothing is built or sent for it, and the watcher goes on to row i + 1
\* of the pass (or, after the last row, to the next game or to sleep)
\* still running; every call the watcher sends is about an index at which
\* respond succeeded; and respond is never invoked twice for one index of
\* a game.
C23_RespondErrorSkipsTheClaim ==
    [][/\ \A g \in 1 .. Len(games) :
            (Len(games'[g].state) = Len(games[g].state) + 1) =>
               \A i \in {Len(games[g].state)} :
               \A res \in {respond(games'[g].state, games[g].trace, i, overflow_checks)} :
                  (~res.ok /\ ~IsPanic(res)) =>
                     /\ games'[g].state =
                           SubSeq(chain_claims[games[g].address], 1, i + 1)
                     /\ w_tx' = <<>>
                     /\ UNCHANGED <<sent, tx_queue>>
                     /\ IF i + 1 < w_length
                        THEN /\ w_pc' = "claim_data"
                             /\ w_game' = g - 1
                             /\ w_i' = i + 1
                             /\ mutex' = "watcher"
                        ELSE w_pc' \in {"get_storage_at", "sleep"}
       /\ (sent' # sent) =>
             \A c \in {sent'[Len(sent')]} :
             \A g \in 1 .. Len(games) :
                (games[g].address = c.tx.to) =>
                   /\ CallIndex(c.tx) < Len(games[g].state)
                   /\ respond(SubSeq(games[g].state, 1, CallIndex(c.tx) + 1),
                              games[g].trace, CallIndex(c.tx), overflow_checks).ok
       /\ (w_log' # w_log /\ w_log'[Len(w_log')][1] = "respond") =>
             \A k \in 1 .. Len(w_log) : w_log[k] # w_log'[Len(w_log')]]_vars

\* C23 witness: in one pass over seven rows respond failed for row 5, the
\* claim below the leaf depth; the watcher kept the row, sent nothing for
\* it, went on to row 6 and sent the call for that one.
C23_Witness ==
    /\ w_pc = "sleep"
    /\ Len(w_log) = 15 /\ w_log[1] = <<"length", DeepGame, 7>>
    /\ Len(games[1].state) = 7
    /\ ~respond(SubSeq(games[1].state, 1, 6), games[1].trace, 5, overflow_checks).ok
    /\ \A k \in 1 .. Len(sent) : CallIndex(sent[k].tx) # 5
    /\ \E k \in 1 .. Len(sent) : CallIndex(sent[k].tx) = 6

\* C30: in the step in which the watcher appends row i of a game and
\* respond(i) returns a Response, a Move(true, c, _) leaves the watcher
\* about to send attack(i, c), a Move(false, c, _) defend(i, c), a
\* Step(s, p, a, data, proof) step(s, p, a, data, proof), each to the
\* game's address and whatever the Move's secondary is, and DoNothing
\* leaves it with no call and not about to send; nothing is sent in that
\* step; the watcher's queue grows only in the step after it, by that one
\* call, and the watcher is then no longer about to send.
C30_OneCallPerMoveOrStep ==
    [][/\ \A g \in 1 .. Len(games) :
            (Len(games'[g].state) = Len(games[g].state) + 1) =>
               \A i \in {Len(games[g].state)} :
               \A a \in {games[g].address} :
               \A res \in {respond(games'[g].state, games[g].trace, i, overflow_checks)} :
                  res.ok =>
                     /\ UNCHANGED <<sent, tx_queue>>
                     /\ (res.val.kind = "Move" /\ res.val.is_attack) =>
                           /\ w_tx' = <<TypedTransaction(a, "attack", <<i, res.val.claim>>)>>
                           /\ w_pc' = "send"
                     /\ (res.val.kind = "Move" /\ ~res.val.is_attack) =>
                           /\ w_tx' = <<TypedTransaction(a, "defend", <<i, res.val.claim>>)>>
                           /\ w_pc' = "send"
                     /\ (res.val.kind = "Step") =>
                           /\ w_tx' = <<TypedTransaction(a, "step",
                                           <<res.val.state_index, res.val.parent_index,
                                             res.val.is_attack, res.val.state_data,
                                             res.val.proof>>)>>
                           /\ w_pc' = "send"
                     /\ (res.val.kind = "DoNothing") =>
                           /\ w_tx' = <<>>
                           /\ w_pc' # "send"
       /\ (sent' # sent) =>
             /\ w_pc = "send" /\ w_pc' # "send"
             /\ sent' = Append(sent, [id |-> Len(sent), producer |-> "fault_game_watcher",
                                      tx |-> w_tx[1]])
             /\ tx_queue' = Append(tx_queue, sent'[Len(sent')])
       /\ (w_pc = "send" /\ w_pc' # "send") => sent' # sent
       /\ (w_pc' = "send" /\ w_pc # "send") =>
             \E g \in 1 .. Len(games) : Len(games'[g].state) = Len(games[g].state) + 1]_vars

\* C30 witness: after a pass over seven rows the watcher has sent an
\* attack, a defend and a step, has sent nothing for a row it answered
\* with DoNothing, and has sent one call for a row whose Move carried a
\* secondary.
C30_Witness ==
    /\ w_pc = "sleep"
    /\ Len(games[1].state) = 7
    /\ \A sel \in {"attack", "defend", "step"} :
          \E k \in 1 .. Len(sent) : sent[k].tx.sel = sel
    /\ \E i \in 0 .. 6 :
          /\ respond(SubSeq(games[1].state, 1, i + 1), games[1].trace, i,
                     overflow_checks) = Ok(DoNothing)
          /\ \A k \in 1 .. Len(sent) : CallIndex(sent[k].tx) # i
    /\ \E i \in 0 .. 6 :
          \E res \in {respond(SubSeq(games[1].state, 1, i + 1), games[1].trace, i,
                              overflow_checks)} :
             /\ res.ok /\ res.val.kind = "Move" /\ res.val.secondary # None
             /\ Cardinality({k \in 1 .. Len(sent) : CallIndex(sent[k].tx) = i}) = 1
    /\ \A k, m \in 1 .. Len(sent) :
          (k # m) => CallIndex(sent[k].tx) # CallIndex(sent[m].tx)

(***************************************************************************)
(* The dispatcher's gas settings (SpecOracle).                             *)
(***************************************************************************)
\* The steps by which the dispatcher prepares and submits a call, with
\* `fallback` the gas_price of a call for which the provider quoted none:
\* the estimate step sets gas to an estimate the provider gave and nothing
\* else; the pricing step keeps the gas and sets gas_price to twice a quote
\* the provider gave or to `fallback`, and both can happen; the submit step
\* submits the call as priced.
GasSettings(fallback) ==
    /\ (disp_pc = "estimate_gas" /\ disp_pc' = "get_gas_price") =>
          /\ Ok(disp_tx'[1].tx.gas) \in GasEstimates
          /\ disp_tx'[1] = [disp_tx[1] EXCEPT !.tx.gas = disp_tx'[1].tx.gas]
    /\ (disp_pc = "get_gas_price") =>
          /\ ENABLED (DispGasPrice /\ disp_tx'[1].tx.gas_price = fallback)
          /\ \A q \in {r \in GasPrices : r.ok} :
                ENABLED (DispGasPrice /\ disp_tx'[1].tx.gas_price = 2 * q.val)
    /\ (disp_pc = "get_gas_price" /\ disp_pc' = "send_transaction") =>
          /\ disp_tx'[1].tx.gas_price \in
                {2 * q.val : q \in {r \in GasPrices : r.ok}} \cup {fallback}
          /\ disp_tx'[1] = [disp_tx[1] EXCEPT !.tx.gas_price = disp_tx'[1].tx.gas_price]
    /\ (disp_pc = "send_transaction" /\ disp_pc' = "recv") =>
          /\ Len(processed') = Len(processed) + 1
          /\ processed'[Len(processed')].tx = disp_tx[1].tx
          /\ processed'[Len(processed')].outcome \in {"sent", "send_failed"}
          /\ (processed'[Len(processed')].outcome = "sent") =>
                mempool' = Append(mempool, disp_tx[1].tx)

\* C24 as stated: a call whose gas estimation succeeded is submitted with
\* gas equal to the estimate and gas_price twice the quoted price, or
\* 1 wei when the provider quoted no price.
C24_FailedQuoteSubmitsOneWei == [][GasSettings(1)]_vars

\* C24 amended: a call whose gas estimation succeeded is submitted with
\* gas equal to the estimate and gas_price twice the quoted price, or
\* 2 wei (twice the 1-wei fallback) when the provider quoted no price.
C24_FailedQuoteSubmitsTwoWei == [][GasSettings(2)]_vars

\* C24 witness: the dispatcher has submitted two calls with the estimated
\* gas, one at twice the quoted price and one, after a failed quote, at
\* 2 wei.
C24_Witness ==
    /\ Len(Submissions) = 2
    /\ \A k \in 1 .. 2 : Ok(Submissions[k].tx.gas) \in GasEstimates
    /\ Ok(Submissions[1].tx.gas_price \div 2) \in GasPrices
    /\ Submissions[2].tx.gas_price = 2
    /\ Ok(1) \notin GasPrices

(***************************************************************************)
(* Claims about the Position functions (SpecPosition).                     *)
(***************************************************************************)
\* The function called last.
PosCalled(name) == pos_call[1] = name

\* C25 as stated: make_move(p, true) is left(p), make_move(p, false) is
\* left(p + 1) whether p is even or odd, and both are one level below p.
C25_DefendIsLeftOfNextPosition ==
    PosCalled("make_move") =>
       /\ depth(pos_out) = depth(pos_in.position) + 1
       /\ pos_call[2] => pos_out = left(pos_in.position)
       /\ ~pos_call[2] => pos_out = left(pos_in.position + 1)

\* C25 amended: make_move(p, true) is left(p); make_move(p, false) is
\* left(p + 1), the left child of p's right sibling, when p is even, and
\* left(p) when p is odd; both are one level below p.
C25_DefendIsLeftOfRightSiblingIfEven ==
    PosCalled("make_move") =>
       /\ depth(pos_out) = depth(pos_in.position) + 1
       /\ pos_call[2] => pos_out = left(pos_in.position)
       /\ ~pos_call[2] =>
             pos_out = IF pos_in.position % 2 = 0
                       THEN left(right(parent(pos_in.position)))
                       ELSE left(pos_in.position)
       /\ (~pos_call[2] /\ pos_in.position % 2 = 0) =>
             right(parent(pos_in.position)) = pos_in.position + 1

\* C25 witness: the defence of the odd position 3 is 6, its own left
\* child, and not 8, the left child of position 4.
C25_Witness ==
    /\ pos_call = <<"make_move", FALSE>>
    /\ pos_in.position = 3
    /\ pos_out = 6
    /\ left(pos_in.position + 1) = 8

\* C26: for depth(p) <= D, right_index(p, D) is (p + 1) * 2^(D - depth(p))
\* - 1, is at least p, has depth D and is the last position of depth D
\* below p; trace_index(p, D) is right_index(p, D) - 2^D; and for D = 4
\* and p = 1 .. 31 depth, index_at_depth, right_index and trace_index
\* return what the table of position_correctness_static lists.
C26_RightIndexIsRightmostLeaf ==
    \A remaining \in {pos_in.max_depth - depth(pos_in.position)} :
       /\ PosCalled("right_index") =>
             /\ pos_out = (pos_in.position + 1) * Pow2(remaining) - 1
             /\ pos_out >= pos_in.position
             /\ depth(pos_out) = pos_in.max_depth
             /\ pos_out \div Pow2(remaining) = pos_in.position
             /\ (pos_out + 1) \div Pow2(remaining) = pos_in.position + 1
       /\ PosCalled("trace_index") =>
             pos_out = right_index(pos_in.position, pos_in.max_depth)
                          - Pow2(pos_in.max_depth)
       /\ (pos_in.max_depth = MAX_DEPTH /\ pos_in.position <= Len(PositionTable)) =>
             \A row \in {PositionTable[pos_in.position]} :
                /\ PosCalled("depth") => pos_out = row[1]
                /\ PosCalled("index_at_depth") => pos_out = row[2]
                /\ PosCalled("right_index") => pos_out = row[3]
                /\ PosCalled("trace_index") => pos_out = row[4]

\* C26 witness: right_index(5, 4) has returned 23, as the table lists.
C26_Witness ==
    /\ PosCalled("right_index")
    /\ pos_in = [position |-> 5, max_depth |-> 4]
    /\ pos_out = 23
    /\ PositionTable[5] = <<2, 1, 23, 7>>
    /\ PositionTable[16] = <<4, 0, 16, 0>>
    /\ PositionTable[31] = <<4, 15, 31, 15>>

\* C28: for p > 1, left(parent(p)) is p exactly when p is even, and
\* right(parent(p)) is p when p is odd; for p >= 1 the parent of left(p)
\* and the parent of right(p) are p.
C28_ParentInvertsLeftAndRight ==
    /\ (PosCalled("parent") /\ pos_in.position > 1) =>
          /\ (left(pos_out) = pos_in.position) <=> (pos_in.position % 2 = 0)
          /\ (pos_in.position % 2 = 1) => right(pos_out) = pos_in.position
    /\ PosCalled("left") => parent(pos_out) = pos_in.position
    /\ PosCalled("right") => parent(pos_out) = pos_in.position

\* C28 witness: parent(5) has returned 2, whose right child is 5 and whose
\* left child is not.
C28_Witness ==
    /\ PosCalled("parent")
    /\ pos_in.position = 5
    /\ pos_out = 2
    /\ right(pos_out) = 5 /\ left(pos_out) = 4

(***************************************************************************)
(* The generalized index at machine width (SpecGindex).                    *)
(***************************************************************************)
\* C27: for d <= 64 and i < 2^d, compute_gindex(d, i) is 2^d + i (bit d
\* set, the bits below it those of i, none above), its depth is d, and its
\* index_at_depth is i, all 64 bits of it.
C27_GindexRoundTrip ==
    /\ PosCalled("compute_gindex") =>
          pos_out = [k \in 1 .. U128_BITS |->
                        IF k = pos_in.depth + 1 THEN 1
                        ELSE IF k <= pos_in.depth THEN pos_in.index_at_depth[k]
                        ELSE 0]
    /\ PosCalled("depth") => pos_out = pos_in.depth
    /\ PosCalled("index_at_depth") => pos_out = pos_in.index_at_depth

\* C27 witness: index_at_depth has returned 2^64 - 1, every bit set, for
\* the position computed from depth 64 and that index.
C27_Witness ==
    /\ PosCalled("index_at_depth")
    /\ pos_in.depth = U64_BITS
    /\ \A k \in 1 .. U64_BITS : pos_in.index_at_depth[k] = 1
    /\ pos_out = pos_in.index_at_depth

(***************************************************************************)
(* The prestate of a Step (SpecRespond).                                   *)
(***************************************************************************)
\* respond returned a Step.
IsStep == r_result.ok /\ r_result.val.kind = "Step"

\* The index of the first row, going up the parent_index links from row k,
\* whose position has right_index `leaf_pos` in the tree of depth
\* MAX_DEPTH, or -1 when the links end at the root without one.
RECURSIVE NearestCommitting(_, _)
NearestCommitting(k, leaf_pos) ==
    IF k = U32_MAX THEN -1
    ELSE IF right_index(g_state[k + 1].position, MAX_DEPTH) = leaf_pos THEN k
    ELSE NearestCommitting(g_state[k + 1].parent_index, leaf_pos)

\* The ABI encoding of (trace_index, trace byte) at `position`.
Preimage(position) ==
    abi_encode(<<trace_index(position, MAX_DEPTH),
                 g_trace[trace_index(position, MAX_DEPTH) + 1]>>)

\* C29: a Step that respond returns has state_index 0 and empty state_data
\* when make_move(P.position, is_attack) is the first position of its
\* depth; otherwise its state_index is the index of the nearest ancestor k
\* of P whose right_index is P.position - 1 for an attack and
\* P.position + 1 for a defence, and its state_data is the encoding of
\* (trace_index, trace byte) at that ancestor's position for an attack and
\* at P's position for a defence.
C29_StepPrestate ==
    (Called /\ IsStep) =>
       IF index_at_depth(make_move(P.position, r_result.val.is_attack)) = 0
       THEN /\ r_result.val.state_index = 0
            /\ r_result.val.state_data = Bytes_default
       ELSE \A k \in {NearestCommitting(P.parent_index,
                         IF r_result.val.is_attack THEN P.position - 1
                         ELSE P.position + 1)} :
               /\ k >= 0
               /\ r_result.val.state_index = k
               /\ r_result.val.state_data =
                     IF r_result.val.is_attack
                     THEN Preimage(g_state[k + 1].position)
                     ELSE Preimage(P.position)

\* C29 witness: an attack step against a leaf claim whose prestate is held
\* by an ancestor that is not P's parent.
C29_Witness ==
    /\ Called /\ IsStep
    /\ r_result.val.is_attack
    /\ index_at_depth(P.position) > 0
    /\ r_result.val.state_index # P.parent_index
    /\ r_result.val.state_index > 0
    /\ r_result.val.state_data # Preimage(P.position)

(***************************************************************************)
(* Claims about the local state of the tracked games (SpecGames).          *)
(***************************************************************************)
\* The rows the game at `address` has on chain.
OnChain(address) == chain_claims[address]

\* C31: in every step, each tracked game keeps its place and address, and
\* its local state either stays as it is or gains one row at the end, which
\* is the row the chain holds at that index when it is fetched; so no row is
\* modified or removed once appended, and after the step the local state is
\* a prefix of the on-chain claim array and no longer than it.
C31_LocalStateIsPrefixOfChain ==
    [][\A g \in 1 .. Len(games) :
          /\ g <= Len(games')
          /\ games'[g].address = games[g].address
          /\ \/ games'[g].state = games[g].state
             \/ /\ Len(games[g].state) < Len(OnChain(games[g].address))
                /\ games'[g].state =
                      Append(games[g].state,
                             OnChain(games[g].address)[Len(games[g].state) + 1])
          /\ Len(games'[g].state) <= Len(OnChain(games[g].address)')
          /\ games'[g].state =
                SubSeq(OnChain(games[g].address)', 1, Len(games'[g].state))]_vars

\* C31 witness: the watcher has appended two rows to a game, the second in
\* a later pass than the first, and the game's array on chain has both.
C31_Witness ==
    /\ Len(games) >= 1
    /\ Len(games[1].state) = 2
    /\ games[1].state = OnChain(games[1].address)
    /\ Cardinality({k \in 1 .. Len(w_log) : w_log[k][1] = "length"}) = 2
    /\ w_pc = "sleep"
(***************************************************************************)
(* SpecLaggingNode: the watcher on two tracked fault games, reading the    *)
(* length of their claim arrays from a node that may be behind the head of *)
(* the chain.  Both games have their root claim on chain and no row has    *)
(* been fetched.                                                           *)
(***************************************************************************)
\* The log by which the factory announced the second game.
SecondGameLog ==
    [topics |-> <<DISPUTE_GAME_CREATED_TOPIC0, AddressTopic("game2"),
                  GameTypeTopic(0, GameType_Fault), ROOT_AA>>,
     self_is_creator |-> FALSE,
     root_claim_differs |-> FALSE]

InitLaggingNode ==
    /\ RespondIdle
    /\ overflow_checks = FALSE
    /\ QueueIdle
    /\ OracleIdle
    /\ MainIdle
    /\ PositionIdle
    /\ games = <<new_game("game1", CREATED_AT), new_game("game2", CREATED_AT)>>
    /\ mutex = "free"
    /\ chain_claims \in [GameAddrs -> {<<row>> : row \in NextRows(<<>>)}]
    /\ df_pc = "idle"
    /\ df_log = SecondGameLog
    /\ df_handled = 2
    /\ df_game_addr = "game2"
    /\ df_created_at = CREATED_AT
    /\ w_pc = "lock"
    /\ w_game = 0
    /\ w_i = 0
    /\ w_length = 0
    /\ w_tx = <<>>
    /\ w_log = <<>>

NextLaggingNode ==
    \/ ChainPost
    \/ WLock \/ WGetStorageAtLagging \/ WClaimData \/ WSend \/ WWake

SpecLaggingNode == InitLaggingNode /\ [][NextLaggingNode]_vars

\* The step is the watcher's, on a reply to get_storage_at that carries a
\* length.
LengthRead ==
    /\ w_pc = "get_storage_at"
    /\ w_pc' # "failed"
    /\ <<w_pc, w_game>>' # <<w_pc, w_game>>

\* C32: when the length the watcher reads for a game equals the local
\* length or is smaller, the step leaves every game's state as it is, puts
\* no call on the queue and prepares none, fetches nothing, and takes the
\* watcher to the next game of the pass, or past the last game to its
\* sleep with the guard dropped.
C32_NothingNewLeavesGameAlone ==
    [][(LengthRead /\ w_length' <= Len(games[w_game + 1].state)) =>
          /\ games' = games
          /\ tx_queue' = tx_queue /\ sent' = sent
          /\ w_tx' = w_tx /\ w_log' = w_log
          /\ IF w_game + 1 < Len(games)
             THEN /\ w_pc' = "get_storage_at"
                  /\ w_game' = w_game + 1
                  /\ mutex' = mutex
             ELSE /\ w_pc' = "sleep"
                  /\ mutex' = "free"]_vars

\* C32 witness: the watcher holds a row of the first game, has read a
\* smaller length for it, and is at the second game in the same pass.
C32_Witness ==
    /\ w_pc = "get_storage_at" /\ w_game = 1
    /\ w_length < Len(games[1].state)
    /\ mutex = "watcher"
(***************************************************************************)
(* Claims about the games registry (SpecGames).                            *)
(***************************************************************************)
\* The fault games the factory has announced to the subscriber.
FaultGamesAnnounced == {a \in GameAddrs : chain_claims[a] # <<>>}

\* The subscriber is between the arrival of a Fault game's log and the push.
FaultLogInHand == df_pc \in {"created_at", "lock", "push"}

\* The subscriber stopped on a failed createdAt() read of a Fault game.
CreatedAtFailed == df_pc = "failed" /\ HandledType(df_log, GameType_Fault)

\* C33: in every step the registry keeps the games it has, in their order,
\* and gains at most one at its end; it gains one exactly in the step that
\* ends the handling of a log of a Fault game, and the game is the log's
\* proxy; a log of a Fault game always starts that handling and a log of
\* another type or an incomplete log never does; and the games in the
\* registry are, one for one, the Fault games announced, apart from the one
\* whose log is in hand or whose createdAt() read failed and stopped the
\* subscriber.
C33_GamesOnlyGrow ==
    [][/\ Len(games') \in {Len(games), Len(games) + 1}
       /\ \A g \in 1 .. Len(games) :
             /\ games'[g].address = games[g].address
             /\ games'[g].created_at = games[g].created_at
       /\ (Len(games') = Len(games) + 1) <=> (df_pc = "push" /\ df_pc' = "idle")
       /\ (Len(games') = Len(games) + 1) =>
             /\ HandledType(df_log, GameType_Fault)
             /\ games'[Len(games')].address = df_log.topics[2].addr
       /\ (df_handled' # df_handled) =>
             IF HandledType(df_log', GameType_Fault)
             THEN df_pc' = "created_at"
             ELSE df_pc' \in {"idle", "failed"}
       /\ FaultLogInHand' => HandledType(df_log', GameType_Fault)
       /\ {games'[g].address : g \in 1 .. Len(games')}
             \cup (IF FaultLogInHand' \/ CreatedAtFailed'
                   THEN {df_log'.topics[2].addr} ELSE {})
           = FaultGamesAnnounced'
       /\ Cardinality({games'[g].address : g \in 1 .. Len(games')}) = Len(games')
       /\ (FaultLogInHand' \/ CreatedAtFailed') =>
             \A g \in 1 .. Len(games') : games'[g].address # df_log'.topics[2].addr]_vars

\* C33 witness: two Fault games were announced and pushed in that order,
\* and the watcher has run a pass over both since.
C33_Witness ==
    /\ Len(games) = 2
    /\ df_pc = "idle" /\ df_handled = 2
    /\ games[2].address = df_log.topics[2].addr
    /\ games[1].state # <<>> /\ games[2].state # <<>>
    /\ w_pc = "sleep"
MaxWalkRows == 3

\* The positions of the rows after the root: the first two leaves.
WalkPositions == {16, 17}

\* The states of `n` rows: a root at position 1 whose parent_index is the
\* sentinel or the root's own index, then rows that point at any row.
RECURSIVE WalkStates(_)
WalkStates(n) ==
    IF n = 1
    THEN {<<ClaimData(pi, c, 1)>> : pi \in {U32_MAX, 0}, c \in PostedClaims(1)}
    ELSE WalkStates(n - 1) \cup
         {Append(rows, row) :
            rows \in {r \in WalkStates(n - 1) : Len(r) = n - 1},
            row \in UNION {{ClaimData(pi, c, pos) : pi \in 0 .. (MaxWalkRows - 1),
                                                    c \in PostedClaims(pos)}
                           : pos \in WalkPositions}}

InitWalk ==
    /\ g_state \in WalkStates(MaxWalkRows)
    /\ g_trace = TRACE
    /\ r_parent_index = -1
    /\ r_result = NotCalled
    /\ overflow_checks = FALSE
    /\ QueueIdle
    /\ OracleIdle
    /\ GamesIdle
    /\ MainIdle
    /\ PositionIdle

NextWalk == Respond

SpecWalk == InitWalk /\ [][NextWalk]_vars

\* state[0] carries the sentinel and every later row points at an earlier
\* one.
WellFormedLinks(state) ==
    /\ state[1].parent_index = U32_MAX
    /\ \A i \in 1 .. (Len(state) - 1) : state[i + 1].parent_index < i

\* The indexes from row i up the parent links to the root, for a state
\* with well-formed links.
RECURSIVE Ancestors(_, _)
Ancestors(state, i) ==
    IF state[i + 1].parent_index = U32_MAX THEN <<i>>
    ELSE <<i>> \o Ancestors(state, state[i + 1].parent_index)

\* respond answers the claim P with an attack.
StepIsAttack == ~AgreeWithP

\* respond answers the claim P with a step that needs a prestate: P is at
\* the leaf depth, it is countered, and the step is not at the leftmost
\* leaf.
WalkStarts ==
    /\ depth(P.position) = MAX_DEPTH
    /\ (AgreeWithP => (~PIsRoot /\ AgreeWithG))
    /\ index_at_depth(make_move(P.position, StepIsAttack)) > 0

\* The leaf whose trace index the prestate commits to.
WalkLeafPos == IF StepIsAttack THEN P.position - 1 ELSE P.position + 1

\* C35: for a state whose links are well formed, respond returns: if it
\* walks up from the claim it answers, the result is a Step whose state
\* index is the first claim on the way up that commits to the leaf, or the
\* invalid-claim-index error when no claim up to the root does; and if it
\* does not walk, the result is not an error.
C35_WalkTerminates ==
    (Called /\ WellFormedLinks(g_state)) =>
        /\ r_result # Err("diverges")
        /\ IF WalkStarts
           THEN \E path \in {Ancestors(g_state, r_parent_index)} :
                \E hits \in {{k \in 1 .. Len(path) :
                               right_index(g_state[path[k] + 1].position, MAX_DEPTH)
                                   = WalkLeafPos}} :
                    IF hits = {}
                    THEN r_result = Err("Invalid claim index")
                    ELSE /\ IsStep
                         /\ \E k \in hits :
                              /\ \A m \in hits : k <= m
                              /\ r_result.val.state_index =
                                    (IF k = 1 THEN 0 ELSE path[k])
           ELSE r_result.ok

\* C35 witness: in a game of three rows linked 2 -> 1 -> 0 -> sentinel the
\* walk from row 2 passed row 1 and the root, found no claim that commits
\* to the leaf, and respond returned the invalid-claim-index error.
C35_Witness ==
    /\ Len(g_state) = 3
    /\ WellFormedLinks(g_state)
    /\ g_state[3].parent_index = 1
    /\ r_parent_index = 2
    /\ WalkStarts
    /\ r_result = Err("Invalid claim index")
(***************************************************************************)
(* SpecRedelivery: the OutputProposed handler, the dispatcher and the      *)
(* mempool when the L1 node delivers the same OutputProposed log again.    *)
(***************************************************************************)
\* The first OutputProposed log arrives.
OpRecvFirst == op_handled = 0 /\ OpRecv

\* The log handled last arrives again.
OpRecvAgain == op_handled > 0 /\ OpRecv /\ op_log' = op_log

NextRedelivery ==
    \/ OpRecvFirst \/ OpRecvAgain \/ OpCompare \/ OpTxpool \/ OpSend
    \/ MempoolInclude
    \/ DispRecv \/ DispEstimateGas \/ DispGasPrice \/ DispSend

SpecRedelivery == InitOracle /\ [][NextRedelivery]_vars

\* The places in `pool` of the transactions the dispatcher submitted for
\* calls the OutputProposed handler enqueued.
OwnPending(pool) ==
    {k \in 1 .. Len(pool) :
        \E j \in 1 .. Len(processed) :
            /\ processed[j].outcome = "sent"
            /\ processed[j].tx = pool[k]
            /\ \E i \in 1 .. Len(sent) :
                  /\ sent[i].id = processed[j].id
                  /\ sent[i].producer = "output_proposed"}

\* C36 (as stated): when the same log is handled again, the handler never
\* has a create call to enqueue while the pending transactions it read hold
\* the create transaction an earlier handling of the log produced.
C36_OwnPendingCreateIsRecognised ==
    (op_pc = "send") => OwnPending(op_pool.val) = {}
(***************************************************************************)
(* SpecStackFair: the running agent of SpecStack with every task that main *)
(* spawned scheduled fairly: a step that stays possible is taken.          *)
(***************************************************************************)
DispatcherSteps ==
    StackDispRecv \/ StackDispEstimateGas \/ StackDispGasPrice \/ StackDispSend

FactorySteps ==
    StackDfRecv \/ StackDfCreatedAt \/ StackDfLock \/ StackDfPush \/ StackDfStreamEnd

SpecStackFair ==
    /\ InitStack
    /\ [][NextStack]_vars
    /\ WF_vars(MainJoinNext)
    /\ WF_vars(DispatcherSteps)
    /\ WF_vars(FactorySteps)

\* The game at `a` is in the registry.
Tracked(a) == \E g \in 1 .. Len(games) : games[g].address = a

\* Row i of the game at `a` is in the local state, respond(i) has been
\* called, and the call it asks for, if any, has been put on the queue.
Answered(a, i) ==
    \E g \in 1 .. Len(games) :
        /\ games[g].address = a
        /\ Len(games[g].state) > i
        /\ \E k \in 1 .. Len(w_log) : w_log[k] = <<"respond", a, i>>
        /\ \A tx \in {response_tx(a, i, respond(SubSeq(games[g].state, 1, i + 1),
                                                games[g].trace, i, overflow_checks))} :
              (tx # <<>>) =>
                  \E k \in 1 .. Len(sent) :
                      sent[k].producer = "fault_game_watcher" /\ sent[k].tx = tx[1]

\* C37 (as stated): in the running agent, a claim that is on chain at index
\* i of a tracked game is eventually in the local state, with respond(i)
\* called and the resulting call enqueued.
C37_EveryClaimEventuallyAnswered ==
    \A a \in GameAddrs : \A i \in 0 .. MaxChainPosts :
        (Tracked(a) /\ Len(chain_claims[a]) > i) ~> Answered(a, i)
(***************************************************************************)
(* SpecFullQueue: the dispatcher and the watcher when the queue is full.   *)
(* The OutputProposed handler has enqueued TX_QUEUE_CAPACITY create calls  *)
(* and the dispatcher has received none of them yet; one fault game is     *)
(* tracked, with a root claim on chain that is not the agent's and is not  *)
(* yet fetched.  Every RPC call returns and both tasks keep being          *)
(* scheduled.                                                              *)
(***************************************************************************)
\* The calls, counted back from the last of the full queue, for which the
\* provider may fail the gas estimate or refuse the submission; for the
\* calls before them and after them it does not.
MaxTroubledCalls == 2

\* The log the OutputProposed handler handled last.
FullQueueLog ==
    [topics |-> <<OUTPUT_PROPOSED_TOPIC0, ROOT_AA, U256_from(0), Word(0, 16)>>]

\* The queue after TX_QUEUE_CAPACITY sends of the handler's create call.
FullQueue ==
    [k \in 1 .. TX_QUEUE_CAPACITY |->
        [id |-> k - 1, producer |-> "output_proposed",
         tx |-> challenge_creation_tx(ROOT_AA, 16)]]

InitFullQueue ==
    /\ RespondIdle
    /\ overflow_checks = FALSE
    /\ MainIdle
    /\ PositionIdle
    /\ tx_queue = FullQueue
    /\ sent = FullQueue
    /\ disp_pc = "recv"
    /\ disp_tx = <<>>
    /\ dequeued = <<>>
    /\ processed = <<>>
    /\ mempool = <<>>
    /\ op_pc = "idle"
    /\ op_log = FullQueueLog
    /\ op_handled = TX_QUEUE_CAPACITY
    /\ op_output_at_block = Ok(ROOT_BB)
    /\ op_matches = "no"
    /\ op_pool = Ok(<<>>)
    /\ op_is_pending = "no"
    /\ op_tx = <<challenge_creation_tx(ROOT_AA, 16)>>
    /\ op_sent = <<challenge_creation_tx(ROOT_AA, 16)>>
    /\ games = <<new_game(DeepGame, CREATED_AT)>>
    /\ mutex = "free"
    /\ chain_claims = [a \in GameAddrs |->
                          IF a = DeepGame
                          THEN <<ClaimData(U32_MAX, TheirClaim(1), 1)>> ELSE <<>>]
    /\ df_pc = "idle"
    /\ df_log = DeepGameLog
    /\ df_handled = 1
    /\ df_game_addr = DeepGame
    /\ df_created_at = CREATED_AT
    /\ w_pc = "lock"
    /\ w_game = 0
    /\ w_i = 0
    /\ w_length = 0
    /\ w_tx = <<>>
    /\ w_log = <<>>

\* The call the dispatcher has in hand is one the provider may fail.
Troubled ==
    /\ disp_tx[1].id >= TX_QUEUE_CAPACITY - MaxTroubledCalls
    /\ disp_tx[1].id < TX_QUEUE_CAPACITY

FqDispEstimateGas == DispEstimateGas /\ (Troubled \/ disp_pc' = "get_gas_price")

FqDispGasPrice == DispGasPrice /\ disp_tx'[1].tx.gas_price = 14

FqDispSend ==
    DispSend /\ (Troubled \/ processed'[Len(processed')].outcome = "sent")

FqDispatcherSteps == DispRecv \/ FqDispEstimateGas \/ FqDispGasPrice \/ FqDispSend

FqWatcherSteps == WLock \/ WGetStorageAt \/ WClaimData \/ WSend \/ WWake

NextFullQueue ==
    \/ DispRecv \/ FqDispEstimateGas \/ FqDispGasPrice \/ FqDispSend
    \/ WLock \/ WGetStorageAt \/ WClaimData \/ WSend \/ WWake

SpecFullQueue ==
    /\ InitFullQueue
    /\ [][NextFullQueue]_vars
    /\ WF_vars(FqDispatcherSteps)
    /\ WF_vars(FqWatcherSteps)

\* The watcher waits at tx_sender.send for room in the queue, holding the
\* state mutex.
BlockedUnderMutex == w_pc = "send" /\ ~CanSend /\ mutex = "watcher"

\* Every call put on the queue so far has been processed, the n-th call
\* enqueued being the n-th processed.
AllProcessed ==
    /\ Len(processed) = Len(sent)
    /\ \A n \in 1 .. Len(sent) : processed[n].id = sent[n].id

\* C38: a watcher that waits for room in the full queue while it holds the
\* state mutex eventually gets its call onto the queue and gives up the
\* mutex; and whenever a call on the queue has not been processed, a state
\* follows in which every call enqueued until then has been, whatever
\* became of the calls before it.
C38_QueueAndMutexNeverDeadlock ==
    /\ BlockedUnderMutex ~> (w_pc # "send" /\ mutex # "watcher")
    /\ (~AllProcessed) ~> AllProcessed

\* C38 witness: the watcher's call is the last of the calls processed, all
\* TX_QUEUE_CAPACITY + 1 of them, after the two calls before it were
\* dropped at the gas estimate and refused at submission.
C38_Witness ==
    /\ Len(processed) = TX_QUEUE_CAPACITY + 1
    /\ processed[TX_QUEUE_CAPACITY - 1].outcome = "dropped"
    /\ processed[TX_QUEUE_CAPACITY].outcome = "send_failed"
    /\ processed[TX_QUEUE_CAPACITY + 1].outcome = "sent"
    /\ sent[TX_QUEUE_CAPACITY + 1].producer = "fault_game_watcher"
    /\ w_pc = "sleep"
(***************************************************************************)
(* SpecDeepRespond: respond applied to the games of SpecDeepGame, whose    *)
(* last claim is one level deeper than MAX_DEPTH, in a build with overflow *)
(* checks and in one without.                                              *)
(***************************************************************************)
InitDeepRespond ==
    /\ g_state \in DeepChains
    /\ g_trace = TRACE
    /\ r_parent_index = -1
    /\ r_result = NotCalled
    /\ overflow_checks \in BOOLEAN
    /\ QueueIdle
    /\ OracleIdle
    /\ GamesIdle
    /\ MainIdle
    /\ PositionIdle

NextDeepRespond == Respond

SpecDeepRespond == InitDeepRespond /\ [][NextDeepRespond]_vars

\* C39 (as stated): respond returns a Response or an error value for every
\* state and index, the states with a position deeper than MAX_DEPTH
\* included; it never aborts.
C39_RespondNeverAborts ==
    (r_parent_index >= 0) => (r_result.ok \/ ~IsPanic(r_result))
(***************************************************************************)
(* Claims about the mempool search of the OutputProposed handler           *)
(* (SpecOracle).                                                           *)
(***************************************************************************)
\* C40 (as stated): whatever transactions are pending, those whose calldata
\* is the create selector and less than 68 bytes included, the search for a
\* pending challenge ends with true or with false and the handler goes on.
C40_DuplicateCheckIsTotal ==
    (op_pool.ok /\ op_pc # "txpool") =>
        /\ op_is_pending \in {"yes", "no"}
        /\ op_pc # "panicked"
====
